---------------------------- MODULE Spec2Model ----------------------------
(***************************************************************************)
(* DevExtreme filter backend: the in-memory evaluator of the package       *)
(* dynamictablefilter (FilterDynamicData / applyFilterRecursive /          *)
(* evaluateCondition) and the predicate builder of package main            *)
(* (ParseFilterToPredicates with GenericEntAdapter).                       *)
(*                                                                         *)
(* A request carries a schema, a record list and a decoded JSON filter;    *)
(* the two handlers apply the two backends to it.                          *)
(***************************************************************************)
EXTENDS Integers, Sequences, FiniteSets, TLC

VARIABLES
    schema,       \* the TableSchema of the table / entity of the request
    data,         \* the records of the table ([]map[string]interface{})
    filterInput,  \* the decoded "filter" member of the request body
    dynResult,    \* what FilterDynamicData returned ("none" before the call)
    entResult,    \* what ParseFilterToPredicates returned ("none" before)
    registeredAdapters,  \* the adapter registry: lower-cased entity name -> adapter
    serving,      \* the server accepts requests (init and main's set-up are over)
    calls         \* the calls in progress: one per request goroutine, or the
                  \* calls of adapter and registry functions made so far

vars ==
    <<schema, data, filterInput, dynResult, entResult, registeredAdapters, serving,
      calls>>

----------------------------------------------------------------------------
(* Decoded JSON values (interface{} after json.Unmarshal).  One record      *)
(* shape for every kind: k is the dynamic type, s the string, n and f the   *)
(* number n + f/10 (f in 0..9, so n is the floor), a the array elements.    *)
(* A bool keeps its truth value in n (1 / 0).  The kinds "int" and "time"   *)
(* are the Go values int and time.Time, which only converted filter values  *)
(* inside predicates have.                                                  *)

JNull == [k |-> "null", s |-> "", n |-> 0, f |-> 0, a |-> <<>>]

JStr(str) == [k |-> "str", s |-> str, n |-> 0, f |-> 0, a |-> <<>>]

JNum(whole) == [k |-> "num", s |-> "", n |-> whole, f |-> 0, a |-> <<>>]

JFrac(whole, tenths) == [k |-> "num", s |-> "", n |-> whole, f |-> tenths, a |-> <<>>]

JBool(b) == [k |-> "bool", s |-> "", n |-> IF b THEN 1 ELSE 0, f |-> 0, a |-> <<>>]

JArr(elems) == [k |-> "arr", s |-> "", n |-> 0, f |-> 0, a |-> elems]

GoInt(i) == [k |-> "int", s |-> "", n |-> i, f |-> 0, a |-> <<>>]

GoTime(t) == [k |-> "time", s |-> "", n |-> t, f |-> 0, a |-> <<>>]

IsStr(v) == v.k = "str"

IsArr(v) == v.k = "arr"

\* int(v) of a float64: truncation toward zero.
TruncInt(v) == IF v.n < 0 /\ v.f # 0 THEN v.n + 1 ELSE v.n

\* v < w and v <= w on float64 values.
NumLess(v, w) == v.n < w.n \/ (v.n = w.n /\ v.f < w.f)

NumLeq(v, w) == v.n < w.n \/ (v.n = w.n /\ v.f <= w.f)

NumEq(v, w) == v.n = w.n /\ v.f = w.f

----------------------------------------------------------------------------
(* Strings.  TLA+ strings are atoms, so the letters of the strings the      *)
(* model uses are tabulated: ToLower by its result, Chars by the letters    *)
(* of a string.                                                             *)

ToLower(str) ==
    CASE str = "AMOUNT" -> "amount"
      [] str = "Amount" -> "amount"
      [] str = "NAME" -> "name"
      [] str = "Name" -> "name"
      [] str = "QTY" -> "qty"
      [] str = "AND" -> "and"
      [] str = "And" -> "and"
      [] str = "OR" -> "or"
      [] str = "Or" -> "or"
      [] str = "BETWEEN" -> "between"
      [] str = "Between" -> "between"
      [] str = "CONTAINS" -> "contains"
      [] str = "Contains" -> "contains"
      [] str = "TRUE" -> "true"
      [] str = "True" -> "true"
      [] str = "FALSE" -> "false"
      [] str = "False" -> "false"
      [] str = "T" -> "t"
      [] str = "F" -> "f"
      [] str = "Foo" -> "foo"
      [] str = "FOO" -> "foo"
      [] str = "Bar" -> "bar"
      [] str = "FooBar" -> "foobar"
      [] str = "Transaction" -> "transaction"
      [] str = "Trans 0" -> "trans 0"
      [] str = "Trans 1" -> "trans 1"
      [] str = "Test Trans 0" -> "test trans 0"
      [] str = "Test Trans 1" -> "test trans 1"
      [] str = "Test Trans 10" -> "test trans 10"
      [] OTHER -> str

Chars(str) ==
    CASE str = "" -> <<>>
      [] str = "foo" -> <<"f", "o", "o">>
      [] str = "fo" -> <<"f", "o">>
      [] str = "oo" -> <<"o", "o">>
      [] str = "o" -> <<"o">>
      [] str = "bar" -> <<"b", "a", "r">>
      [] str = "foobar" -> <<"f", "o", "o", "b", "a", "r">>
      [] str = "trans 0" -> <<"t", "r", "a", "n", "s", " ", "0">>
      [] str = "trans 1" -> <<"t", "r", "a", "n", "s", " ", "1">>
      [] str = "test trans 0" ->
            <<"t", "e", "s", "t", " ", "t", "r", "a", "n", "s", " ", "0">>
      [] str = "test trans 1" ->
            <<"t", "e", "s", "t", " ", "t", "r", "a", "n", "s", " ", "1">>
      [] str = "test trans 10" ->
            <<"t", "e", "s", "t", " ", "t", "r", "a", "n", "s", " ", "1", "0">>
      [] str = "Foo" -> <<"F", "o", "o">>
      [] str = "FOO" -> <<"F", "O", "O">>
      [] str = "Bar" -> <<"B", "a", "r">>
      [] str = "FooBar" -> <<"F", "o", "o", "B", "a", "r">>
      [] str = "Trans 0" -> <<"T", "r", "a", "n", "s", " ", "0">>
      [] str = "Trans 1" -> <<"T", "r", "a", "n", "s", " ", "1">>
      [] str = "Test Trans 0" ->
            <<"T", "e", "s", "t", " ", "T", "r", "a", "n", "s", " ", "0">>
      [] str = "Test Trans 1" ->
            <<"T", "e", "s", "t", " ", "T", "r", "a", "n", "s", " ", "1">>
      [] str = "Test Trans 10" ->
            <<"T", "e", "s", "t", " ", "T", "r", "a", "n", "s", " ", "1", "0">>
      [] str = "1" -> <<"1">>
      [] str = "0" -> <<"0">>
      [] str = "10" -> <<"1", "0">>
      [] str = "100" -> <<"1", "0", "0">>
      [] OTHER -> <<str>>

\* Mutant of EqualFold: the strings are compared as they are.
EqualFold_Exact(x, y) == x = y

\* strings.EqualFold
EqualFold(x, y) == ToLower(x) = ToLower(y)

\* strings.Contains / HasPrefix / HasSuffix
Contains(x, y) ==
    LET cx == Chars(x)
        cy == Chars(y)
    IN  \E i \in 1..(Len(cx) + 1) :
            /\ i + Len(cy) - 1 <= Len(cx)
            /\ SubSeq(cx, i, i + Len(cy) - 1) = cy

HasPrefix(x, y) ==
    LET cx == Chars(x)
        cy == Chars(y)
    IN  Len(cy) <= Len(cx) /\ SubSeq(cx, 1, Len(cy)) = cy

HasSuffix(x, y) ==
    LET cx == Chars(x)
        cy == Chars(y)
    IN  Len(cy) <= Len(cx) /\ SubSeq(cx, Len(cx) - Len(cy) + 1, Len(cx)) = cy

----------------------------------------------------------------------------
(* Formatting and parsing of scalar values.                                 *)

RECURSIVE JoinSprintf(_, _)

\* fmt.Sprintf("%v", v): a string as it is, a float64 in its shortest
\* decimal form, a bool as true / false, nil as <nil>, a slice as its
\* elements between brackets, separated by spaces.
Sprintf(v) ==
    CASE v.k = "str" -> v.s
      [] v.k = "num" ->
            IF v.f = 0 THEN ToString(v.n)
            ELSE IF v.n >= 0 THEN ToString(v.n) \o "." \o ToString(v.f)
            ELSE "-" \o ToString(-(v.n + 1)) \o "." \o ToString(10 - v.f)
      [] v.k = "int" -> ToString(v.n)
      [] v.k = "bool" -> IF v.n = 1 THEN "true" ELSE "false"
      [] v.k = "null" -> "<nil>"
      [] v.k = "arr" -> "[" \o JoinSprintf(v.a, 1) \o "]"
      [] OTHER -> "<time>"

JoinSprintf(elems, i) ==
    IF i > Len(elems) THEN ""
    ELSE Sprintf(elems[i])
            \o (IF i < Len(elems) THEN " " ELSE "")
            \o JoinSprintf(elems, i + 1)

\* The decimal strings the model uses, with the float64 each denotes.
NumericStrings ==
    [str \in {"0", "1", "10", "100", "150", "200", "300", "400"} |->
        CASE str = "0" -> JNum(0)
          [] str = "1" -> JNum(1)
          [] str = "10" -> JNum(10)
          [] str = "100" -> JNum(100)
          [] str = "150" -> JNum(150)
          [] str = "200" -> JNum(200)
          [] str = "300" -> JNum(300)
          [] OTHER -> JNum(400)]
        @@ [str \in {"1.5", "100.5"} |->
                IF str = "1.5" THEN JFrac(1, 5) ELSE JFrac(100, 5)]

\* strconv.ParseFloat(text, 64): [ok, v].
ParseFloat(text) ==
    IF text \in DOMAIN NumericStrings
    THEN [ok |-> TRUE, v |-> NumericStrings[text]]
    ELSE [ok |-> FALSE, v |-> JNum(0)]

\* strconv.ParseFloat(fmt.Sprintf("%v", v), 64).  The shortest decimal form
\* of a float64 parses back to the same float64, so a number gives itself;
\* every other kind goes through its text.
ParseFloatOfSprintf(v) ==
    IF v.k = "num" THEN [ok |-> TRUE, v |-> v] ELSE ParseFloat(Sprintf(v))

\* strconv.ParseBool: 1, t, T, TRUE, true, True, 0, f, F, FALSE, false, False.
ParseBool(text) ==
    IF text \in {"1", "t", "T", "TRUE", "true", "True"}
    THEN [ok |-> TRUE, b |-> TRUE]
    ELSE IF text \in {"0", "f", "F", "FALSE", "false", "False"}
    THEN [ok |-> TRUE, b |-> FALSE]
    ELSE [ok |-> FALSE, b |-> FALSE]

\* The timestamp strings the model uses: the form of each (which layouts
\* accept it) and its instant, in hours since 2024-01-01T00:00:00Z.
TimeStrings ==
    [str \in {"2024-01-01", "2024-01-02", "2024-01-03",
              "2024-01-02T00:00:00Z", "2024-01-02T00:00:00",
              "2024-01-02T02:00:00+02:00"} |->
        CASE str = "2024-01-01" -> [form |-> "date", t |-> 0]
          [] str = "2024-01-02" -> [form |-> "date", t |-> 24]
          [] str = "2024-01-03" -> [form |-> "date", t |-> 48]
          [] str = "2024-01-02T00:00:00Z" -> [form |-> "zulu", t |-> 24]
          [] str = "2024-01-02T00:00:00" -> [form |-> "nozone", t |-> 24]
          [] OTHER -> [form |-> "offset", t |-> 24]]

\* time.Parse(layout, text) succeeds.
LayoutAccepts(layout, text) ==
    /\ text \in DOMAIN TimeStrings
    /\ LET form == TimeStrings[text].form
       IN  CASE layout \in {"RFC3339", "RFC3339Nano", "2006-01-02T15:04:05Z07:00"} ->
                    form \in {"zulu", "offset"}
             [] layout = "2006-01-02T15:04:05Z" -> form = "zulu"
             [] layout = "2006-01-02T15:04:05" -> form = "nozone"
             [] layout = "2006-01-02" -> form = "date"
             [] OTHER -> FALSE

\* The first layout of the list that parses the text decides: [ok, t].
ParseWithLayouts(layouts, text) ==
    IF \E i \in 1..Len(layouts) : LayoutAccepts(layouts[i], text)
    THEN [ok |-> TRUE, t |-> TimeStrings[text].t]
    ELSE [ok |-> FALSE, t |-> 0]

evaluateLayouts ==
    <<"RFC3339Nano", "2006-01-02T15:04:05Z", "2006-01-02T15:04:05", "2006-01-02">>

----------------------------------------------------------------------------
(* evaluateCondition: one leaf on one record value, by declared type.       *)

\* Mutant of evaluateCondition: a value that cannot be coerced is unequal to
\* everything, so that "<>" holds for it.
evaluateCondition_FailureIsUnequal(recordVal, operator, filterVal, fieldType) ==
    LET op == ToLower(operator)
    IN  CASE fieldType = "string" ->
              LET sRecordVal == Sprintf(recordVal)
                  sFilterVal == Sprintf(filterVal)
              IN  CASE op = "=" -> EqualFold(sRecordVal, sFilterVal)
                    [] op = "<>" -> ~EqualFold(sRecordVal, sFilterVal)
                    [] op = "contains" ->
                          Contains(ToLower(sRecordVal), ToLower(sFilterVal))
                    [] op = "startswith" ->
                          HasPrefix(ToLower(sRecordVal), ToLower(sFilterVal))
                    [] op = "endswith" ->
                          HasSuffix(ToLower(sRecordVal), ToLower(sFilterVal))
                    [] op = "notcontains" ->
                          ~Contains(ToLower(sRecordVal), ToLower(sFilterVal))
                    [] OTHER -> FALSE
          [] fieldType = "int" ->
              LET okR == recordVal.k \in {"num", "int"}
                  parsed == ParseFloatOfSprintf(filterVal)
                  r == TruncInt(recordVal)
                  w == TruncInt(parsed.v)
              IN  IF ~okR THEN op = "<>"
                  ELSE IF ~parsed.ok THEN op = "<>"
                  ELSE CASE op = "=" -> r = w
                         [] op = "<>" -> r # w
                         [] op = ">" -> r > w
                         [] op = ">=" -> r >= w
                         [] op = "<" -> r < w
                         [] op = "<=" -> r <= w
                         [] OTHER -> FALSE
          [] fieldType = "float64" ->
              LET okR == recordVal.k = "num"
                  parsed == ParseFloatOfSprintf(filterVal)
                  w == parsed.v
              IN  IF ~okR THEN op = "<>"
                  ELSE IF ~parsed.ok THEN op = "<>"
                  ELSE CASE op = "=" -> NumEq(recordVal, w)
                         [] op = "<>" -> ~NumEq(recordVal, w)
                         [] op = ">" -> NumLess(w, recordVal)
                         [] op = ">=" -> NumLeq(w, recordVal)
                         [] op = "<" -> NumLess(recordVal, w)
                         [] op = "<=" -> NumLeq(recordVal, w)
                         [] OTHER -> FALSE
          [] fieldType = "bool" ->
              LET okR == recordVal.k = "bool"
                  parsed == ParseBool(ToLower(Sprintf(filterVal)))
                  bRecordVal == recordVal.n = 1
              IN  IF ~okR THEN op = "<>"
                  ELSE IF ~parsed.ok THEN op = "<>"
                  ELSE CASE op = "=" -> bRecordVal = parsed.b
                         [] op = "<>" -> bRecordVal # parsed.b
                         [] OTHER -> FALSE
          [] fieldType = "time.Time" ->
              LET tR == ParseWithLayouts(evaluateLayouts, Sprintf(recordVal))
                  tF == ParseWithLayouts(evaluateLayouts, Sprintf(filterVal))
              IN  IF ~tR.ok THEN op = "<>"
                  ELSE IF ~tF.ok THEN op = "<>"
                  ELSE CASE op = "=" -> tR.t = tF.t
                         [] op = "<>" -> tR.t # tF.t
                         [] op = ">" -> tR.t > tF.t
                         [] op = ">=" -> tR.t >= tF.t
                         [] op = "<" -> tR.t < tF.t
                         [] op = "<=" -> tR.t <= tF.t
                         [] OTHER -> FALSE
          [] OTHER -> FALSE

evaluateCondition(recordVal, operator, filterVal, fieldType) ==
    LET op == ToLower(operator)
    IN  CASE fieldType = "string" ->
              LET sRecordVal == Sprintf(recordVal)
                  sFilterVal == Sprintf(filterVal)
              IN  CASE op = "=" -> EqualFold(sRecordVal, sFilterVal)
                    [] op = "<>" -> ~EqualFold(sRecordVal, sFilterVal)
                    [] op = "contains" ->
                          Contains(ToLower(sRecordVal), ToLower(sFilterVal))
                    [] op = "startswith" ->
                          HasPrefix(ToLower(sRecordVal), ToLower(sFilterVal))
                    [] op = "endswith" ->
                          HasSuffix(ToLower(sRecordVal), ToLower(sFilterVal))
                    [] op = "notcontains" ->
                          ~Contains(ToLower(sRecordVal), ToLower(sFilterVal))
                    [] OTHER -> FALSE
          [] fieldType = "int" ->
              LET okR == recordVal.k \in {"num", "int"}
                  parsed == ParseFloatOfSprintf(filterVal)
                  r == TruncInt(recordVal)
                  w == TruncInt(parsed.v)
              IN  IF ~okR THEN FALSE
                  ELSE IF ~parsed.ok THEN FALSE
                  ELSE CASE op = "=" -> r = w
                         [] op = "<>" -> r # w
                         [] op = ">" -> r > w
                         [] op = ">=" -> r >= w
                         [] op = "<" -> r < w
                         [] op = "<=" -> r <= w
                         [] OTHER -> FALSE
          [] fieldType = "float64" ->
              LET okR == recordVal.k = "num"
                  parsed == ParseFloatOfSprintf(filterVal)
                  w == parsed.v
              IN  IF ~okR THEN FALSE
                  ELSE IF ~parsed.ok THEN FALSE
                  ELSE CASE op = "=" -> NumEq(recordVal, w)
                         [] op = "<>" -> ~NumEq(recordVal, w)
                         [] op = ">" -> NumLess(w, recordVal)
                         [] op = ">=" -> NumLeq(w, recordVal)
                         [] op = "<" -> NumLess(recordVal, w)
                         [] op = "<=" -> NumLeq(recordVal, w)
                         [] OTHER -> FALSE
          [] fieldType = "bool" ->
              LET okR == recordVal.k = "bool"
                  parsed == ParseBool(ToLower(Sprintf(filterVal)))
                  bRecordVal == recordVal.n = 1
              IN  IF ~okR THEN FALSE
                  ELSE IF ~parsed.ok THEN FALSE
                  ELSE CASE op = "=" -> bRecordVal = parsed.b
                         [] op = "<>" -> bRecordVal # parsed.b
                         [] OTHER -> FALSE
          [] fieldType = "time.Time" ->
              LET tR == ParseWithLayouts(evaluateLayouts, Sprintf(recordVal))
                  tF == ParseWithLayouts(evaluateLayouts, Sprintf(filterVal))
              IN  IF ~tR.ok THEN FALSE
                  ELSE IF ~tF.ok THEN FALSE
                  ELSE CASE op = "=" -> tR.t = tF.t
                         [] op = "<>" -> tR.t # tF.t
                         [] op = ">" -> tR.t > tF.t
                         [] op = ">=" -> tR.t >= tF.t
                         [] op = "<" -> tR.t < tF.t
                         [] op = "<=" -> tR.t <= tF.t
                         [] OTHER -> FALSE
          [] OTHER -> FALSE

----------------------------------------------------------------------------
(* Schemas: TableSchema{EntityName, Fields, FieldMap}.                      *)

\* The loop of LoadTableSchema and of NewGenericEntAdapter:
\*   for _, field := range schema.Fields { FieldMap[ToLower(field.Name)] = field }
\* A later field of the same lower-cased name overwrites an earlier one.
BuildFieldMap(fields) ==
    [key \in {ToLower(fields[i].Name) : i \in DOMAIN fields} |->
        LET last == CHOOSE i \in DOMAIN fields :
                        /\ ToLower(fields[i].Name) = key
                        /\ \A j \in DOMAIN fields :
                               ToLower(fields[j].Name) = key => j <= i
        IN  fields[last]]

LoadTableSchema(entityName, fields) ==
    [EntityName |-> entityName, Fields |-> fields, FieldMap |-> BuildFieldMap(fields)]

----------------------------------------------------------------------------
(* The in-memory backend.  A call returns a value, returns an error, or     *)
(* panics (a failed single-value type assertion).                           *)

MatchOk(b) == [st |-> "ok", match |-> b, err |-> ""]

MatchErr(kind) == [st |-> "err", match |-> FALSE, err |-> kind]

MatchPanic == [st |-> "panic", match |-> FALSE, err |-> "interface conversion"]

RECURSIVE applyFilterRecursive(_, _, _)

RECURSIVE groupLoop(_, _, _, _, _)

RECURSIVE groupLoop_RightToLeft(_, _, _, _, _)

\* Mutant of groupLoop: the chain is combined from the right, so that
\* [A, "or", B, "and", C] reads A or (B and C).
groupLoop_RightToLeft(record, sch, filterGroup, i, currentMatch) ==
    IF i >= Len(filterGroup) THEN MatchOk(currentMatch)
    ELSE IF i + 1 >= Len(filterGroup) THEN MatchErr("malformed group filter")
    ELSE IF ~IsStr(filterGroup[i + 1])
    THEN MatchErr("logical operator must be a string")
    ELSE IF ~IsArr(filterGroup[i + 2])
    THEN MatchErr("group filter operand must be an array")
    ELSE LET logicalOperator == ToLower(filterGroup[i + 1].s)
             nextSubMatch == applyFilterRecursive(record, sch, filterGroup[i + 2].a)
             rest == groupLoop_RightToLeft(record, sch, filterGroup, i + 2,
                                           nextSubMatch.match)
         IN  IF nextSubMatch.st # "ok" THEN nextSubMatch
             ELSE IF logicalOperator \notin {"and", "or"}
             THEN MatchErr("invalid logical operator")
             ELSE IF rest.st # "ok" THEN rest
             ELSE IF logicalOperator = "and"
             THEN MatchOk(currentMatch /\ rest.match)
             ELSE MatchOk(currentMatch \/ rest.match)

RECURSIVE groupLoop_ShortCircuit(_, _, _, _, _)

\* Mutant of groupLoop: an operand that cannot change the match (after a
\* true "or", after a false "and") is not evaluated.
groupLoop_ShortCircuit(record, sch, filterGroup, i, currentMatch) ==
    IF i >= Len(filterGroup) THEN MatchOk(currentMatch)
    ELSE IF i + 1 >= Len(filterGroup) THEN MatchErr("malformed group filter")
    ELSE IF ~IsStr(filterGroup[i + 1])
    THEN MatchErr("logical operator must be a string")
    ELSE IF ~IsArr(filterGroup[i + 2])
    THEN MatchErr("group filter operand must be an array")
    ELSE LET logicalOperator == ToLower(filterGroup[i + 1].s)
             nextSubMatch == applyFilterRecursive(record, sch, filterGroup[i + 2].a)
         IN  IF logicalOperator = "and" /\ ~currentMatch
             THEN groupLoop_ShortCircuit(record, sch, filterGroup, i + 2, FALSE)
             ELSE IF logicalOperator = "or" /\ currentMatch
             THEN groupLoop_ShortCircuit(record, sch, filterGroup, i + 2, TRUE)
             ELSE IF nextSubMatch.st # "ok" THEN nextSubMatch
             ELSE IF logicalOperator \in {"and", "or"}
             THEN groupLoop_ShortCircuit(record, sch, filterGroup, i + 2,
                                         nextSubMatch.match)
             ELSE MatchErr("invalid logical operator")

\* The for loop of applyFilterRecursive, from index i (0-based, an operator
\* position) with the match found so far.
groupLoop(record, sch, filterGroup, i, currentMatch) ==
    IF i >= Len(filterGroup) THEN MatchOk(currentMatch)
    ELSE IF i + 1 >= Len(filterGroup) THEN MatchErr("malformed group filter")
    ELSE IF ~IsStr(filterGroup[i + 1])
    THEN MatchErr("logical operator must be a string")
    ELSE IF ~IsArr(filterGroup[i + 2])
    THEN MatchErr("group filter operand must be an array")
    ELSE LET logicalOperator == ToLower(filterGroup[i + 1].s)
             nextSubMatch == applyFilterRecursive(record, sch, filterGroup[i + 2].a)
         IN  IF nextSubMatch.st # "ok" THEN nextSubMatch
             ELSE IF logicalOperator = "and"
             THEN groupLoop(record, sch, filterGroup, i + 2,
                            currentMatch /\ nextSubMatch.match)
             ELSE IF logicalOperator = "or"
             THEN groupLoop(record, sch, filterGroup, i + 2,
                            currentMatch \/ nextSubMatch.match)
             ELSE MatchErr("invalid logical operator")

\* Mutant of notBranch: the operand's match is returned without negation.
notBranch_NotNegated(record, sch, filterGroup) ==
    IF Len(filterGroup) # 2 THEN MatchErr("malformed NOT filter")
    ELSE IF ~IsArr(filterGroup[2])
    THEN MatchErr("NOT filter operand must be an array")
    ELSE applyFilterRecursive(record, sch, filterGroup[2].a)

\* The branch of applyFilterRecursive for a first element "!".
notBranch(record, sch, filterGroup) ==
    IF Len(filterGroup) # 2 THEN MatchErr("malformed NOT filter")
    ELSE IF ~IsArr(filterGroup[2])
    THEN MatchErr("NOT filter operand must be an array")
    ELSE LET subMatch == applyFilterRecursive(record, sch, filterGroup[2].a)
         IN  IF subMatch.st # "ok" THEN subMatch
             ELSE MatchOk(~subMatch.match)

\* Mutant of leafBranch: a record without the field is an error.
leafBranch_MissingFieldIsError(record, sch, filterGroup) ==
    LET fieldName == filterGroup[1].s
        operator == IF IsStr(filterGroup[2]) THEN filterGroup[2].s ELSE ""
    IN  IF ToLower(fieldName) \notin DOMAIN sch.FieldMap
        THEN MatchErr("field not found in schema")
        ELSE IF fieldName \notin DOMAIN record
        THEN MatchErr("field not found in record")
        ELSE MatchOk(evaluateCondition(record[fieldName], operator, filterGroup[3],
                                       sch.FieldMap[ToLower(fieldName)].Type))

\* The branch for a first element that is a string, in an array of three:
\* a leaf [field, operator, value].  A non-string operator reads as "".
leafBranch(record, sch, filterGroup) ==
    LET fieldName == filterGroup[1].s
        operator == IF IsStr(filterGroup[2]) THEN filterGroup[2].s ELSE ""
        value == filterGroup[3]
    IN  IF ToLower(fieldName) \notin DOMAIN sch.FieldMap
        THEN MatchErr("field not found in schema")
        ELSE IF fieldName \notin DOMAIN record THEN MatchOk(FALSE)
        ELSE MatchOk(evaluateCondition(record[fieldName], operator, value,
                                       sch.FieldMap[ToLower(fieldName)].Type))

\* Mutant of applyFilterRecursive: a first operand that is itself a group is
\* read by its first sub-expression alone, not as a unit.
applyFilterRecursive_FirstNotUnit(record, sch, filterGroup) ==
    IF Len(filterGroup) = 0 THEN MatchOk(TRUE)
    ELSE IF IsStr(filterGroup[1]) /\ filterGroup[1].s = "!"
    THEN notBranch(record, sch, filterGroup)
    ELSE IF IsStr(filterGroup[1]) /\ Len(filterGroup) = 3
    THEN leafBranch(record, sch, filterGroup)
    ELSE IF ~IsArr(filterGroup[1]) THEN MatchPanic
    ELSE LET operand == filterGroup[1].a
             first == IF Len(operand) > 1 /\ IsArr(operand[1])
                      THEN applyFilterRecursive(record, sch, operand[1].a)
                      ELSE applyFilterRecursive(record, sch, operand)
         IN  IF first.st # "ok" THEN first
             ELSE groupLoop(record, sch, filterGroup, 1, first.match)

applyFilterRecursive(record, sch, filterGroup) ==
    IF Len(filterGroup) = 0 THEN MatchOk(TRUE)
    ELSE IF IsStr(filterGroup[1]) /\ filterGroup[1].s = "!"
    THEN notBranch(record, sch, filterGroup)
    ELSE IF IsStr(filterGroup[1]) /\ Len(filterGroup) = 3
    THEN leafBranch(record, sch, filterGroup)
    ELSE IF ~IsArr(filterGroup[1]) THEN MatchPanic
    ELSE LET first == applyFilterRecursive(record, sch, filterGroup[1].a)
         IN  IF first.st # "ok" THEN first
             ELSE groupLoop(record, sch, filterGroup, 1, first.match)

FilterOk(records) == [st |-> "ok", records |-> records, err |-> ""]

FilterErr(kind) == [st |-> "err", records |-> <<>>, err |-> kind]

FilterPanic == [st |-> "panic", records |-> <<>>, err |-> "interface conversion"]

RECURSIVE filterLoop(_, _, _, _, _)

RECURSIVE filterLoop_Prepends(_, _, _, _, _)

\* Mutant of filterLoop: a matching record is put in front of the results.
filterLoop_Prepends(records, sch, filterArray, i, filteredResults) ==
    IF i > Len(records) THEN FilterOk(filteredResults)
    ELSE LET m == applyFilterRecursive(records[i], sch, filterArray)
         IN  IF m.st = "panic" THEN FilterPanic
             ELSE IF m.st = "err" THEN FilterErr(m.err)
             ELSE filterLoop_Prepends(records, sch, filterArray, i + 1,
                                      IF m.match THEN <<records[i]>> \o filteredResults
                                      ELSE filteredResults)

\* The for loop of FilterDynamicData over the records, from record i.
filterLoop(records, sch, filterArray, i, filteredResults) ==
    IF i > Len(records) THEN FilterOk(filteredResults)
    ELSE LET m == applyFilterRecursive(records[i], sch, filterArray)
         IN  IF m.st = "panic" THEN FilterPanic
             ELSE IF m.st = "err" THEN FilterErr(m.err)
             ELSE filterLoop(records, sch, filterArray, i + 1,
                             IF m.match THEN Append(filteredResults, records[i])
                             ELSE filteredResults)

\* Mutant of FilterDynamicData: an empty filter array selects nothing.
FilterDynamicData_EmptySelectsNone(records, sch, input) ==
    IF input = JNull THEN FilterOk(records)
    ELSE IF ~IsArr(input) THEN FilterErr("filter input is not an array")
    ELSE IF Len(input.a) = 0 THEN FilterOk(<<>>)
    ELSE filterLoop(records, sch, input.a, 1, <<>>)

FilterDynamicData(records, sch, input) ==
    IF input = JNull THEN FilterOk(records)
    ELSE IF ~IsArr(input) THEN FilterErr("filter input is not an array")
    ELSE IF Len(input.a) = 0 THEN FilterOk(records)
    ELSE filterLoop(records, sch, input.a, 1, <<>>)

----------------------------------------------------------------------------
(* The predicate backend: *sql.Predicate trees.  t is the node ("nil" for   *)
(* the nil pointer, "cmp" for a comparison of a column with a value, "and", *)
(* "or", "not"), kids the operands of a composite.                          *)

NilPred == [t |-> "nil", op |-> "", col |-> "", val |-> JNull, kids |-> <<>>]

SqlCmp(op, col, val) == [t |-> "cmp", op |-> op, col |-> col, val |-> val, kids |-> <<>>]

SqlAnd(preds) == [t |-> "and", op |-> "", col |-> "", val |-> JNull, kids |-> preds]

SqlOr(preds) == [t |-> "or", op |-> "", col |-> "", val |-> JNull, kids |-> preds]

SqlNot(pred) == [t |-> "not", op |-> "", col |-> "", val |-> JNull, kids |-> <<pred>>]

PredOk(pred) == [st |-> "ok", pred |-> pred, err |-> ""]

PredErr(kind) == [st |-> "err", pred |-> NilPred, err |-> kind]

\* fmt.Sscan(text, &i) for an int: the leading digits are read and what
\* follows them is left unread, so "1.5" scans as 1 without an error.
SscanInt(text) ==
    IF text \in DOMAIN NumericStrings
    THEN [ok |-> TRUE, i |-> TruncInt(NumericStrings[text])]
    ELSE [ok |-> FALSE, i |-> 0]

\* fmt.Sscan(text, &f) for a float64.
SscanFloat(text) == ParseFloat(text)

convertToInt(val) ==
    CASE val.k = "num" ->
            IF val.f # 0
            THEN [ok |-> FALSE, i |-> 0]
            ELSE [ok |-> TRUE, i |-> val.n]
      [] val.k = "int" -> [ok |-> TRUE, i |-> val.n]
      [] val.k = "str" ->
            LET scanned == SscanInt(val.s)
                asFloat == SscanFloat(val.s)
            IN  IF ~scanned.ok /\ asFloat.ok
                THEN IF asFloat.v.f # 0
                     THEN [ok |-> FALSE, i |-> 0]
                     ELSE [ok |-> TRUE, i |-> asFloat.v.n]
                ELSE scanned
      [] OTHER -> [ok |-> FALSE, i |-> 0]

convertLayouts ==
    <<"RFC3339", "RFC3339Nano", "2006-01-02T15:04:05Z07:00",
      "2006-01-02T15:04:05", "2006-01-02">>

convertToTime(val) ==
    IF val.k = "str" THEN ParseWithLayouts(convertLayouts, val.s)
    ELSE IF val.k = "time" THEN [ok |-> TRUE, t |-> val.n]
    ELSE [ok |-> FALSE, t |-> 0]

convertToFloat64(val) ==
    CASE val.k = "num" -> [ok |-> TRUE, v |-> val]
      [] val.k = "int" -> [ok |-> TRUE, v |-> JNum(val.n)]
      [] val.k = "str" -> SscanFloat(val.s)
      [] OTHER -> [ok |-> FALSE, v |-> JNum(0)]

\* The operator tables: the sql constructor each operator maps to.
stringOperators(op, c, v) ==
    CASE op = "=" -> SqlCmp("EQ", c, v)
      [] op = "<>" -> SqlCmp("NEQ", c, v)
      [] op = "contains" -> SqlCmp("ContainsFold", c, v)
      [] op = "notcontains" -> SqlNot(SqlCmp("ContainsFold", c, v))
      [] op = "startswith" -> SqlCmp("HasPrefix", c, v)
      [] op = "endswith" -> SqlCmp("HasSuffix", c, v)
      [] OTHER -> NilPred

orderedOperators(op, c, v) ==
    CASE op = "=" -> SqlCmp("EQ", c, v)
      [] op = "<>" -> SqlCmp("NEQ", c, v)
      [] op = ">" -> SqlCmp("GT", c, v)
      [] op = ">=" -> SqlCmp("GTE", c, v)
      [] op = "<" -> SqlCmp("LT", c, v)
      [] op = "<=" -> SqlCmp("LTE", c, v)
      [] OTHER -> NilPred

boolOperators(op, c, v) ==
    CASE op = "=" -> SqlCmp("EQ", c, v)
      [] op = "<>" -> SqlCmp("NEQ", c, v)
      [] OTHER -> NilPred

StringOps == {"=", "<>", "contains", "notcontains", "startswith", "endswith"}

OrderedOps == {"=", "<>", ">", ">=", "<", "<="}

BoolOps == {"=", "<>"}

\* Mutant of BetweenPredicate: bounds given out of order are swapped.
BetweenPredicate_Swapped(columnName, lower, upper) ==
    IF NumLess(upper, lower)
    THEN SqlAnd(<<SqlCmp("GTE", columnName, upper), SqlCmp("LTE", columnName, lower)>>)
    ELSE SqlAnd(<<SqlCmp("GTE", columnName, lower), SqlCmp("LTE", columnName, upper)>>)

\* sql.And(sql.GTE(column, lower), sql.LTE(column, upper))
BetweenPredicate(columnName, lower, upper) ==
    SqlAnd(<<SqlCmp("GTE", columnName, lower), SqlCmp("LTE", columnName, upper)>>)

\* The "between" branch of GetPredicateForField.
GetBetweenPredicate(fieldType, columnName, val) ==
    IF ~(IsArr(val) /\ Len(val.a) = 2)
    THEN PredErr("between requires an array of two values")
    ELSE CASE fieldType = "int" ->
                LET lower == convertToInt(val.a[1])
                    upper == convertToInt(val.a[2])
                IN  IF ~lower.ok THEN PredErr("invalid lower bound")
                    ELSE IF ~upper.ok THEN PredErr("invalid upper bound")
                    ELSE PredOk(BetweenPredicate(columnName, GoInt(lower.i),
                                                 GoInt(upper.i)))
           [] fieldType = "float64" ->
                LET lower == convertToFloat64(val.a[1])
                    upper == convertToFloat64(val.a[2])
                IN  IF ~lower.ok THEN PredErr("invalid lower bound")
                    ELSE IF ~upper.ok THEN PredErr("invalid upper bound")
                    ELSE PredOk(BetweenPredicate(columnName, lower.v, upper.v))
           [] fieldType = "time.Time" ->
                LET lower == convertToTime(val.a[1])
                    upper == convertToTime(val.a[2])
                IN  IF ~lower.ok THEN PredErr("invalid lower bound")
                    ELSE IF ~upper.ok THEN PredErr("invalid upper bound")
                    ELSE PredOk(BetweenPredicate(columnName, GoTime(lower.t),
                                                 GoTime(upper.t)))
           [] OTHER -> PredErr("between not supported for field type")

\* GenericEntAdapter.GetPredicateForField; ga is the adapter, whose
\* tableSchema is ga.tableSchema.
GetPredicateForField(ga, field, op, val) ==
    LET columnName == ToLower(field)
        opLower == ToLower(op)
    IN  IF columnName \notin DOMAIN ga.tableSchema.FieldMap
        THEN PredErr("field not found in schema")
        ELSE LET fieldType == ga.tableSchema.FieldMap[columnName].Type
             IN  IF opLower = "between"
                 THEN GetBetweenPredicate(fieldType, columnName, val)
                 ELSE CASE fieldType \in {"string", "text"} ->
                             IF ~IsStr(val) THEN PredErr("value must be a string")
                             ELSE IF opLower \in StringOps
                             THEN PredOk(stringOperators(opLower, columnName, val))
                             ELSE PredErr("unsupported operator")
                        [] fieldType = "int" ->
                             LET intVal == convertToInt(val)
                             IN  IF ~intVal.ok THEN PredErr("invalid value for int field")
                                 ELSE IF opLower \in OrderedOps
                                 THEN PredOk(orderedOperators(opLower, columnName,
                                                              GoInt(intVal.i)))
                                 ELSE PredErr("unsupported operator")
                        [] fieldType = "float64" ->
                             LET floatVal == convertToFloat64(val)
                             IN  IF ~floatVal.ok
                                 THEN PredErr("invalid value for float field")
                                 ELSE IF opLower \in OrderedOps
                                 THEN PredOk(orderedOperators(opLower, columnName,
                                                              floatVal.v))
                                 ELSE PredErr("unsupported operator")
                        [] fieldType = "bool" ->
                             LET parsed == IF val.k = "bool"
                                           THEN [ok |-> TRUE, b |-> val.n = 1]
                                           ELSE IF IsStr(val)
                                           THEN ParseBool(ToLower(val.s))
                                           ELSE [ok |-> FALSE, b |-> FALSE]
                             IN  IF ~parsed.ok THEN PredErr("invalid value for bool field")
                                 ELSE IF opLower \in BoolOps
                                 THEN PredOk(boolOperators(opLower, columnName,
                                                           JBool(parsed.b)))
                                 ELSE PredErr("unsupported operator")
                        [] fieldType = "time.Time" ->
                             LET timeVal == convertToTime(val)
                             IN  IF ~timeVal.ok THEN PredErr("invalid value for time field")
                                 ELSE IF opLower \in OrderedOps
                                 THEN PredOk(orderedOperators(opLower, columnName,
                                                              GoTime(timeVal.t)))
                                 ELSE PredErr("unsupported operator")
                        [] OTHER -> PredErr("unsupported field type")

\* validPreds of GetAndPredicate / GetOrPredicate: the non-nil operands.
ValidPreds(predicates) == SelectSeq(predicates, LAMBDA p : p # NilPred)

\* Mutant of GetAndPredicate: a single valid operand is wrapped in And.
GetAndPredicate_WrapsOne(predicates) ==
    LET validPreds == ValidPreds(predicates)
    IN  IF Len(validPreds) = 0 THEN NilPred
        ELSE SqlAnd(validPreds)

GetAndPredicate(predicates) ==
    LET validPreds == ValidPreds(predicates)
    IN  IF Len(validPreds) = 0 THEN NilPred
        ELSE IF Len(validPreds) = 1 THEN validPreds[1]
        ELSE SqlAnd(validPreds)

GetOrPredicate(predicates) ==
    LET validPreds == ValidPreds(predicates)
    IN  IF Len(validPreds) = 0 THEN NilPred
        ELSE IF Len(validPreds) = 1 THEN validPreds[1]
        ELSE SqlOr(validPreds)

GetNotPredicate(p) == IF p = NilPred THEN NilPred ELSE SqlNot(p)

----------------------------------------------------------------------------
(* ParseFilterToPredicates.                                                 *)

\* NewGenericEntAdapter: the adapter of an entity, or the nil adapter.
NewGenericEntAdapter(entityName, fields) ==
    [entityName |-> entityName, tableSchema |-> LoadTableSchema(entityName, fields)]

NilAdapter == [entityName |-> "<nil>", tableSchema |-> LoadTableSchema("<nil>", <<>>)]

RECURSIVE ParseFilterToPredicates(_, _)

RECURSIVE collectGroup(_, _, _, _, _)

RECURSIVE combineGroup(_, _, _, _)

\* The first loop of the group branch: the items from position i (1-based),
\* with the predicates and the operators collected so far.
collectGroup(adapter, filterArray, i, predicates, ops) ==
    IF i > Len(filterArray)
    THEN [st |-> "ok", predicates |-> predicates, ops |-> ops, err |-> ""]
    ELSE IF (i - 1) % 2 = 0
    THEN LET p == ParseFilterToPredicates(adapter, filterArray[i])
         IN  IF p.st = "err"
             THEN [st |-> "err", predicates |-> <<>>, ops |-> <<>>, err |-> p.err]
             ELSE collectGroup(adapter, filterArray, i + 1,
                               IF p.pred # NilPred THEN Append(predicates, p.pred)
                               ELSE predicates,
                               ops)
    ELSE IF ~IsStr(filterArray[i])
    THEN [st |-> "err", predicates |-> <<>>, ops |-> <<>>,
          err |-> "logical operator must be a string"]
    ELSE IF ToLower(filterArray[i].s) \notin {"and", "or"}
    THEN [st |-> "err", predicates |-> <<>>, ops |-> <<>>,
          err |-> "invalid logical operator"]
    ELSE collectGroup(adapter, filterArray, i + 1, predicates,
                      Append(ops, ToLower(filterArray[i].s)))

\* The second loop: operator i (1-based) applied to the predicate built so
\* far and to predicate i + 1.
combineGroup(predicates, ops, i, currentPredicate) ==
    IF i > Len(ops) THEN PredOk(currentPredicate)
    ELSE IF i + 1 > Len(predicates) THEN PredErr("internal error")
    ELSE LET nextPredicate == predicates[i + 1]
         IN  combineGroup(predicates, ops, i + 1,
                          IF ops[i] = "and"
                          THEN GetAndPredicate(<<currentPredicate, nextPredicate>>)
                          ELSE GetOrPredicate(<<currentPredicate, nextPredicate>>))

ParseFilterToPredicates(adapter, input) ==
    IF adapter = NilAdapter THEN PredErr("entity adapter cannot be nil")
    ELSE IF input = JNull THEN PredOk(NilPred)
    ELSE IF ~IsArr(input) THEN PredErr("filter input is not an array")
    ELSE IF Len(input.a) = 0 THEN PredOk(NilPred)
    ELSE LET filterArray == input.a
         IN  IF IsStr(filterArray[1]) /\ filterArray[1].s = "!"
             THEN IF Len(filterArray) # 2 THEN PredErr("malformed NOT filter")
                  ELSE LET sub == ParseFilterToPredicates(adapter, filterArray[2])
                       IN  IF sub.st = "err" THEN sub
                           ELSE IF sub.pred = NilPred THEN PredOk(NilPred)
                           ELSE PredOk(GetNotPredicate(sub.pred))
             ELSE IF /\ IsStr(filterArray[1])
                     /\ Len(filterArray) = 3
                     /\ ToLower(filterArray[1].s) \notin {"and", "or", "!"}
             THEN IF ~IsStr(filterArray[2])
                  THEN PredErr("operator must be a string")
                  ELSE GetPredicateForField(adapter, filterArray[1].s,
                                            filterArray[2].s, filterArray[3])
             ELSE LET g == collectGroup(adapter, filterArray, 1, <<>>, <<>>)
                  IN  IF g.st = "err" THEN PredErr(g.err)
                      ELSE IF Len(g.predicates) = 0 THEN PredOk(NilPred)
                      ELSE IF Len(g.predicates) = 1 THEN PredOk(g.predicates[1])
                      ELSE IF Len(g.ops) # Len(g.predicates) - 1
                      THEN PredErr("mismatched number of conditions and operators")
                      ELSE combineGroup(g.predicates, g.ops, 1, g.predicates[1])

----------------------------------------------------------------------------
(* What the query engine does with a predicate on one row: the nil          *)
(* predicate accepts every row; a comparison reads the column and compares  *)
(* it with the value in the value's type, a row without the column (NULL)   *)
(* satisfying no comparison; and / or / not are the boolean connectives.    *)

\* "lt", "eq", "gt", or "na" when the column value is not of the type.
SqlCompare(rv, val) ==
    CASE val.k \in {"num", "int"} ->
            IF rv.k \notin {"num", "int"} THEN "na"
            ELSE IF NumEq(rv, val) THEN "eq"
            ELSE IF NumLess(rv, val) THEN "lt" ELSE "gt"
      [] val.k = "time" ->
            LET t == convertToTime(rv)
            IN  IF ~t.ok THEN "na"
                ELSE IF t.t = val.n THEN "eq"
                ELSE IF t.t < val.n THEN "lt" ELSE "gt"
      [] val.k = "bool" ->
            IF rv.k # "bool" THEN "na" ELSE IF rv.n = val.n THEN "eq" ELSE "lt"
      [] val.k = "str" ->
            IF rv.k # "str" THEN "na" ELSE IF rv.s = val.s THEN "eq" ELSE "lt"
      [] OTHER -> "na"

SqlHolds(op, rv, val) ==
    LET c == SqlCompare(rv, val)
    IN  CASE op = "EQ" -> c = "eq"
          [] op = "NEQ" -> c \in {"lt", "gt"}
          [] op = "GT" -> c = "gt"
          [] op = "GTE" -> c \in {"gt", "eq"}
          [] op = "LT" -> c = "lt"
          [] op = "LTE" -> c \in {"lt", "eq"}
          [] op = "ContainsFold" ->
                rv.k = "str" /\ Contains(ToLower(rv.s), ToLower(val.s))
          [] op = "HasPrefix" -> rv.k = "str" /\ HasPrefix(rv.s, val.s)
          [] op = "HasSuffix" -> rv.k = "str" /\ HasSuffix(rv.s, val.s)
          [] OTHER -> FALSE

RECURSIVE Accepts(_, _)

Accepts(pred, row) ==
    CASE pred.t = "nil" -> TRUE
      [] pred.t = "cmp" ->
            pred.col \in DOMAIN row /\ SqlHolds(pred.op, row[pred.col], pred.val)
      [] pred.t = "and" -> \A i \in DOMAIN pred.kids : Accepts(pred.kids[i], row)
      [] pred.t = "or" -> \E i \in DOMAIN pred.kids : Accepts(pred.kids[i], row)
      [] pred.t = "not" -> ~Accepts(pred.kids[1], row)
      [] OTHER -> FALSE

\* The rows of a list the predicate accepts, in order.
SelectRows(pred, rows) == SelectSeq(rows, LAMBDA row : Accepts(pred, row))

----------------------------------------------------------------------------
(* The requests the model explores.                                         *)

\* Bounds.
MaxRecords == 3

MaxChainLen == 5

\* Schemas: the transactions table of the tests (amount, name), and a table
\* with one field of every declared type.
TransactionFields ==
    <<[Name |-> "amount", Type |-> "float64"], [Name |-> "name", Type |-> "string"]>>

TypedFields ==
    <<[Name |-> "amount", Type |-> "float64"],
      [Name |-> "qty", Type |-> "int"],
      [Name |-> "name", Type |-> "string"],
      [Name |-> "note", Type |-> "text"],
      [Name |-> "flag", Type |-> "bool"],
      [Name |-> "when", Type |-> "time.Time"]>>

\* Rows of the transactions table; the third lacks the amount.
TransactionPool ==
    <<[amount |-> JNum(100), name |-> JStr("Trans 1")],
      [amount |-> JNum(200), name |-> JStr("Trans 0")],
      [name |-> JStr("Trans 1")],
      [amount |-> JNum(100), name |-> JStr("Trans 0")]>>

RECURSIVE SubLists(_)

\* The sub-lists of a list: some of its elements, in their order.
SubLists(list) ==
    IF list = <<>> THEN {<<>>}
    ELSE LET rest == SubLists(Tail(list))
         IN  rest \cup {<<Head(list)>> \o r : r \in rest}

FirstN(list, n) == SubSeq(list, 1, IF n < Len(list) THEN n ELSE Len(list))

TransactionData == SubLists(FirstN(TransactionPool, MaxRecords))

Leaf(field, op, value) == JArr(<<JStr(field), JStr(op), value>>)

AmountIs100 == Leaf("amount", "=", JNum(100))

NameHasTrans1 == Leaf("name", "contains", JStr("Trans 1"))

UnknownFieldLeaf == Leaf("nope", "=", JNum(1))

EmptyFilter == JArr(<<>>)

\* What may stand where a chain expects a sub-expression, and where it
\* expects "and" / "or".
Operands == {AmountIs100, NameHasTrans1, UnknownFieldLeaf, EmptyFilter, JStr("amount")}

Connectives == {JStr("and"), JStr("or"), JStr("xor"), JNum(5)}

\* From the fourth element on, chains continue with well-formed elements.
TailOperands == {AmountIs100, NameHasTrans1, EmptyFilter}

TailConnectives == {JStr("and"), JStr("or")}

RECURSIVE ChainsOfLen(_)

\* The element lists of length n: sub-expression, connective, sub-expression, ...
ChainsOfLen(n) ==
    IF n = 0 THEN {<<>>}
    ELSE LET next == IF n % 2 = 1
                     THEN (IF n <= 3 THEN Operands ELSE TailOperands)
                     ELSE (IF n <= 3 THEN Connectives ELSE TailConnectives)
         IN  {Append(c, e) : c \in ChainsOfLen(n - 1), e \in next}

Chains == UNION {{JArr(c) : c \in ChainsOfLen(n)} : n \in 1..MaxChainLen}

\* Negations, well-formed and not.
Negations ==
    {JArr(<<JStr("!")>>)}
        \cup {JArr(<<JStr("!"), x>>) :
                x \in Operands \cup {JNull, JArr(<<AmountIs100>>),
                                     JArr(<<NameHasTrans1>>),
                                     JArr(<<UnknownFieldLeaf>>)}}
        \cup {JArr(<<JStr("!"), AmountIs100, NameHasTrans1>>)}

\* Arrays that start with a string and are no leaf, and nested groups.
OddShapes ==
    {JArr(<<JStr("amount"), JStr("=")>>),
     JArr(<<JStr("x")>>),
     JArr(<<JNum(5), JStr("and"), AmountIs100>>),
     JArr(<<JStr("amount"), JNum(5), JNum(100)>>),
     JArr(<<JArr(<<NameHasTrans1, JStr("or"), AmountIs100>>), JStr("and"),
            UnknownFieldLeaf>>),
     JArr(<<JArr(<<JStr("!"), AmountIs100>>), JStr("or"),
            JArr(<<JStr("!"), EmptyFilter>>)>>)}

NameHasTrans0 == Leaf("name", "contains", JStr("Trans 0"))

\* Groups inside groups: the nested filter of the tests, and groups with a
\* leaf on an unknown field one and two levels down.
NestedGroups ==
    {JArr(<<JArr(<<NameHasTrans0, JStr("or"), NameHasTrans1>>), JStr("and"),
            AmountIs100>>),
     JArr(<<JArr(<<AmountIs100, JStr("or"), UnknownFieldLeaf>>), JStr("and"),
            NameHasTrans1>>),
     JArr(<<NameHasTrans1, JStr("and"),
            JArr(<<JStr("!"), JArr(<<UnknownFieldLeaf>>)>>)>>),
     JArr(<<AmountIs100, JStr("or"),
            JArr(<<JArr(<<NameHasTrans1, JStr("and"), UnknownFieldLeaf>>)>>)>>),
     JArr(<<AmountIs100, JStr("and"),
            JArr(<<NameHasTrans0, JStr("or"), NameHasTrans1>>)>>)}

GrammarFilters ==
    {JNull, JStr("amount"), JNum(5), EmptyFilter}
        \cup Operands \cup Chains \cup Negations \cup OddShapes \cup NestedGroups

----------------------------------------------------------------------------
(* The state machine: a request is there from the start; each of the two    *)
(* handlers answers it once.                                                *)

\* The registry before init.
NoAdapters == [e \in {} |-> NilAdapter]

\* Mutant of RegisterAdapter: the adapter is stored under the name as it is
\* written.
RegisterAdapter_AsWritten(registry, entityName, adapter) ==
    [e \in DOMAIN registry \cup {entityName} |->
        IF e = entityName THEN adapter ELSE registry[e]]

\* RegisterAdapter: the registry with the adapter under the lower-cased name.
RegisterAdapter(registry, entityName, adapter) ==
    [e \in DOMAIN registry \cup {ToLower(entityName)} |->
        IF e = ToLower(entityName) THEN adapter ELSE registry[e]]

\* Mutant of GetAdapter: a name that is not registered is entered in the
\* registry, with no adapter, by the lookup.
GetAdapter_RegistersMissing(registry, entityName) ==
    IF ToLower(entityName) \in DOMAIN registry
    THEN [ok |-> TRUE, adapter |-> registry[ToLower(entityName)],
          registeredAdapters |-> registry]
    ELSE [ok |-> FALSE, adapter |-> NilAdapter,
          registeredAdapters |-> RegisterAdapter(registry, entityName, NilAdapter)]

\* GetAdapter: the adapter under the lower-cased name, or an error; with the
\* registry as the call leaves it.
GetAdapter(registry, entityName) ==
    IF ToLower(entityName) \in DOMAIN registry
    THEN [ok |-> TRUE, adapter |-> registry[ToLower(entityName)],
          registeredAdapters |-> registry]
    ELSE [ok |-> FALSE, adapter |-> NilAdapter, registeredAdapters |-> registry]

\* The schema definition file of an entity.
SchemaDefinition(entityName) ==
    IF entityName = "transaction" THEN TransactionFields ELSE TypedFields

entitiesToRegister == <<"transaction", "typed">>

RECURSIVE RegisterAll(_, _)

\* The loop of init(): an adapter for every entity from the i-th on.
RegisterAll(registry, i) ==
    IF i > Len(entitiesToRegister) THEN registry
    ELSE RegisterAll(RegisterAdapter(registry, entitiesToRegister[i],
                         NewGenericEntAdapter(entitiesToRegister[i],
                             SchemaDefinition(entitiesToRegister[i]))),
                     i + 1)

NoFilterResult == [st |-> "none", records |-> <<>>, err |-> ""]

NoPredResult == [st |-> "none", pred |-> NilPred, err |-> ""]

Init ==
    /\ schema = LoadTableSchema("transaction", TransactionFields)
    /\ data \in TransactionData
    /\ filterInput \in GrammarFilters
    /\ dynResult = NoFilterResult
    /\ entResult = NoPredResult
    /\ registeredAdapters = RegisterAll(NoAdapters, 1)
    /\ serving = TRUE
    /\ calls = <<>>

\* POST /dynamic-tables/<table>/filter: FilterDynamicData on the table's
\* schema and data.
DynamicTableFilter ==
    /\ dynResult = NoFilterResult
    /\ dynResult' = FilterDynamicData(data, schema, filterInput)
    /\ UNCHANGED <<schema, data, filterInput, entResult, registeredAdapters, serving,
                   calls>>

\* POST /filter: ParseFilterToPredicates with the entity's adapter.
filterHandler ==
    /\ entResult = NoPredResult
    /\ entResult' = ParseFilterToPredicates(
                        GetAdapter(registeredAdapters, schema.EntityName).adapter,
                        filterInput)
    /\ UNCHANGED <<schema, data, filterInput, dynResult, registeredAdapters, serving,
                   calls>>

Next == DynamicTableFilter \/ filterHandler

Spec == Init /\ [][Next]_vars

----------------------------------------------------------------------------
(* Leaf conditions on the table with one field of every type: every field,  *)
(* operator and value below, alone and in front of an "or".                 *)

\* Rows of the typed table.  Each field is absent from some row.
TypedPool ==
    <<[amount |-> JNum(150), qty |-> JNum(3), name |-> JStr("Foo"),
       flag |-> JBool(TRUE), when |-> JStr("2024-01-02")],
      [amount |-> JNum(200), qty |-> JNum(1), name |-> JStr("FooBar"),
       note |-> JStr("foo")],
      [note |-> JStr("Bar"), flag |-> JBool(FALSE), when |-> JStr("2024-01-03"),
       amount |-> JNum(400)],
      [amount |-> JNum(300), qty |-> JNum(2), name |-> JStr("foo"),
       note |-> JStr("FooBar"), flag |-> JBool(TRUE),
       when |-> JStr("2024-01-02T00:00:00Z")]>>

TypedData == SubLists(FirstN(TypedPool, MaxRecords))

LeafFields == {"amount", "AMOUNT", "qty", "name", "note", "flag", "when", "nope"}

LeafOperators ==
    {JStr(o) : o \in {"=", "<>", ">", ">=", "<", "<=", "contains", "notcontains",
                      "startswith", "endswith", "between", "Between", "like"}}
        \cup {JNum(5)}

LeafValues ==
    {JNum(150), JNum(200), JNum(400), JFrac(1, 5), JStr("200"), JStr("abc"),
     JStr("foo"), JStr("Bar"), JBool(TRUE), JStr("true"), JStr("1"),
     JStr("2024-01-02"), JNull,
     JArr(<<JNum(200), JNum(400)>>), JArr(<<JNum(200), JNum(100)>>),
     JArr(<<JNum(1), JNum(3)>>), JArr(<<JNum(3), JNum(1)>>),
     JArr(<<JStr("2024-01-02"), JStr("2024-01-03")>>),
     JArr(<<JStr("2024-01-03"), JStr("2024-01-01")>>),
     JArr(<<JNum(200)>>)}

TypedLeaves ==
    {JArr(<<JStr(f), o, v>>) : f \in LeafFields, o \in LeafOperators, v \in LeafValues}

AmountIs400 == Leaf("amount", "=", JNum(400))

\* A leaf in front of "or" and a leaf on another field.
LeafThenOr ==
    {JArr(<<JArr(<<JStr(f), o, JNum(150)>>), JStr("or"), AmountIs400>>) :
        f \in {"AMOUNT", "qty", "name"}, o \in LeafOperators}

LeafFilters == TypedLeaves \cup LeafThenOr

InitLeaf ==
    /\ schema = LoadTableSchema("typed", TypedFields)
    /\ data \in TypedData
    /\ filterInput \in LeafFilters
    /\ dynResult = NoFilterResult
    /\ entResult = NoPredResult
    /\ registeredAdapters = RegisterAll(NoAdapters, 1)
    /\ serving = TRUE
    /\ calls = <<>>

SpecLeaf == InitLeaf /\ [][Next]_vars

----------------------------------------------------------------------------
(* A table with fields named like the reserved tokens, and arrays of three  *)
(* elements that start with a token or with a field name.                   *)

ReservedFields ==
    <<[Name |-> "and", Type |-> "string"], [Name |-> "or", Type |-> "string"],
      [Name |-> "amount", Type |-> "float64"]>>

\* A record of the table: a function from its keys.
ReservedRow(andValue, orValue, amount) ==
    [key \in {"and", "or", "amount"} |->
        IF key = "and" THEN JStr(andValue)
        ELSE IF key = "or" THEN JStr(orValue) ELSE JNum(amount)]

ReservedPool ==
    <<ReservedRow("foo", "bar", 100), ReservedRow("bar", "foo", 200),
      ReservedRow("foo", "foo", 100), ReservedRow("bar", "bar", 150)>>

ReservedData == SubLists(FirstN(ReservedPool, MaxRecords))

ReservedFilters ==
    {JArr(<<JStr(first), JStr(op), value>>) :
        first \in {"and", "or", "!", "AND", "Or", "amount"},
        op \in {"=", "<>", "contains", "and"},
        value \in {JStr("foo"), JNum(100), JBool(TRUE), JArr(<<>>),
                   Leaf("amount", "=", JNum(100))}}

InitReserved ==
    /\ schema = LoadTableSchema("reserved", ReservedFields)
    /\ data \in ReservedData
    /\ filterInput \in ReservedFilters
    /\ dynResult = NoFilterResult
    /\ entResult = NoPredResult
    /\ registeredAdapters =
          RegisterAdapter(NoAdapters, "reserved",
                          NewGenericEntAdapter("reserved", ReservedFields))
    /\ serving = TRUE
    /\ calls = <<>>

SpecReserved == InitReserved /\ [][Next]_vars

----------------------------------------------------------------------------
(* Concurrent requests: net/http serves every request in a goroutine of its *)
(* own, so filter calls run interleaved.  A call advances by the steps      *)
(* below; between two of its steps other calls may take theirs.             *)

MaxCalls == 2

Calls == 1..MaxCalls

NoCallResult == [st |-> "none", records |-> <<>>, pred |-> NilPred, err |-> ""]

IdleCall ==
    [pc |-> "idle", kind |-> "", entity |-> "", filter |-> JNull,
     adapter |-> NilAdapter, i |-> 0, filteredResults |-> <<>>,
     result |-> NoCallResult]

\* The result of a finished call.
CallResult(r) ==
    [st |-> r.st,
     records |-> IF "records" \in DOMAIN r THEN r.records ELSE <<>>,
     pred |-> IF "pred" \in DOMAIN r THEN r.pred ELSE NilPred,
     err |-> r.err]

Finished(call, r) == [call EXCEPT !.pc = "done", !.result = CallResult(r)]

\* The requests: a filter for the dynamic table, or for a named entity.
ConcurrentFilters ==
    {JNull, AmountIs100, NameHasTrans1, UnknownFieldLeaf,
     JArr(<<AmountIs100, JStr("or"), NameHasTrans1>>)}

ConcurrentTargets ==
    {<<"dyn", "">>, <<"ent", "transaction">>, <<"ent", "Transaction">>,
     <<"ent", "ghost">>}

InitConcurrent ==
    /\ schema = LoadTableSchema("transaction", TransactionFields)
    /\ data = FirstN(TransactionPool, MaxRecords)
    /\ filterInput = JNull
    /\ dynResult = NoFilterResult
    /\ entResult = NoPredResult
    /\ registeredAdapters = NoAdapters
    /\ serving = FALSE
    /\ calls = [c \in Calls |-> IdleCall]

\* init(): every entity's adapter is registered, before main runs.
init ==
    /\ ~serving
    /\ registeredAdapters = NoAdapters
    /\ registeredAdapters' = RegisterAll(registeredAdapters, 1)
    /\ UNCHANGED <<schema, data, filterInput, dynResult, entResult, serving, calls>>

\* main(): http.ListenAndServe, after init.
ListenAndServe ==
    /\ ~serving
    /\ registeredAdapters # NoAdapters
    /\ serving' = TRUE
    /\ UNCHANGED <<schema, data, filterInput, dynResult, entResult,
                   registeredAdapters, calls>>

\* A request arrives and its body is decoded.
AcceptRequest(c) ==
    /\ serving
    /\ calls[c].pc = "idle"
    /\ \E target \in ConcurrentTargets, filter \in ConcurrentFilters :
          calls' = [calls EXCEPT ![c] =
                       [IdleCall EXCEPT !.pc = "start", !.kind = target[1],
                                        !.entity = target[2], !.filter = filter]]
    /\ UNCHANGED <<schema, data, filterInput, dynResult, entResult,
                   registeredAdapters, serving>>

\* filterHandler: GetAdapter(requestBody.Entity).
GetAdapterStep(c) ==
    /\ calls[c].pc = "start"
    /\ calls[c].kind = "ent"
    /\ LET got == GetAdapter(registeredAdapters, calls[c].entity)
       IN  /\ registeredAdapters' = got.registeredAdapters
           /\ calls' = [calls EXCEPT ![c] =
                  IF got.ok THEN [@ EXCEPT !.pc = "parse", !.adapter = got.adapter]
                  ELSE Finished(@, PredErr("no adapter registered"))]
    /\ UNCHANGED <<schema, data, filterInput, dynResult, entResult, serving>>

\* filterHandler: ParseFilterToPredicates(adapter, requestBody.Filter).
ParseStep(c) ==
    /\ calls[c].pc = "parse"
    /\ calls' = [calls EXCEPT ![c] =
           Finished(@, ParseFilterToPredicates(@.adapter, @.filter))]
    /\ UNCHANGED <<schema, data, filterInput, dynResult, entResult,
                   registeredAdapters, serving>>

\* FilterDynamicData up to its loop.
FilterStart(c) ==
    /\ calls[c].pc = "start"
    /\ calls[c].kind = "dyn"
    /\ calls' = [calls EXCEPT ![c] =
           IF @.filter = JNull THEN Finished(@, FilterOk(data))
           ELSE IF ~IsArr(@.filter)
           THEN Finished(@, FilterErr("filter input is not an array"))
           ELSE IF Len(@.filter.a) = 0 THEN Finished(@, FilterOk(data))
           ELSE [@ EXCEPT !.pc = "loop", !.i = 1]]
    /\ UNCHANGED <<schema, data, filterInput, dynResult, entResult,
                   registeredAdapters, serving>>

\* One turn of the loop of FilterDynamicData: the next record is evaluated.
FilterRecord(c) ==
    /\ calls[c].pc = "loop"
    /\ calls' = [calls EXCEPT ![c] =
           IF @.i > Len(data) THEN Finished(@, FilterOk(@.filteredResults))
           ELSE LET m == applyFilterRecursive(data[@.i], schema, @.filter.a)
                IN  IF m.st = "panic" THEN Finished(@, FilterPanic)
                    ELSE IF m.st = "err" THEN Finished(@, FilterErr(m.err))
                    ELSE [@ EXCEPT !.i = @ + 1,
                                   !.filteredResults =
                                       IF m.match THEN Append(@, data[calls[c].i])
                                       ELSE @]]
    /\ UNCHANGED <<schema, data, filterInput, dynResult, entResult,
                   registeredAdapters, serving>>

NextConcurrent ==
    \/ init
    \/ ListenAndServe
    \/ \E c \in Calls :
          \/ AcceptRequest(c)
          \/ GetAdapterStep(c)
          \/ ParseStep(c)
          \/ FilterStart(c)
          \/ FilterRecord(c)

SpecConcurrent == InitConcurrent /\ [][NextConcurrent]_vars

----------------------------------------------------------------------------
(* Properties.                                                              *)

DynDone == dynResult.st # "none"

EntDone == entResult.st # "none"

\* The adapter the request's entity is registered with.
Adapter == NewGenericEntAdapter(schema.EntityName, schema.Fields)

\* A leaf [field, operator, value] on a field of the schema.
IsSchemaLeaf(v) ==
    /\ IsArr(v)
    /\ Len(v.a) = 3
    /\ IsStr(v.a[1])
    /\ v.a[1].s \notin {"!", "and", "or"}
    /\ ToLower(v.a[1].s) \in DOMAIN schema.FieldMap

\* The match of a sub-expression on a record.
Ev(r, x) == applyFilterRecursive(r, schema, x.a)

\* The predicate of a sub-expression.
Pr(x) == ParseFilterToPredicates(Adapter, x)

(* C1: the two backends are equivalent: once both have answered a request,  *)
(* one returned an error exactly when the other did, and the records the    *)
(* in-memory evaluator selected are the records the built predicate         *)
(* accepts.  Stated for a table that holds records, where the in-memory     *)
(* evaluator does evaluate the filter.                                      *)
C1_BackendsAgree ==
    (DynDone /\ EntDone /\ Len(data) > 0) =>
        /\ (dynResult.st = "ok") <=> (entResult.st = "ok")
        /\ dynResult.st = "ok" => dynResult.records = SelectRows(entResult.pred, data)

(* C2: the empty filter matches everything: for nil and for the empty array *)
(* FilterDynamicData returns every input record and                         *)
(* ParseFilterToPredicates returns the nil predicate and no error.          *)
C2_EmptyFilterMatchesAll ==
    filterInput \in {JNull, EmptyFilter} =>
        /\ DynDone => dynResult = FilterOk(data)
        /\ EntDone => entResult = PredOk(NilPred)

C2_Witness ==
    /\ filterInput = EmptyFilter
    /\ Len(data) >= 2
    /\ dynResult.st = "ok"
    /\ Len(dynResult.records) = Len(data)
    /\ entResult.st = "ok"

\* A chain of leaves on schema fields, joined by "and" / "or", that ends
\* with a connective.
IsDanglingChain(v) ==
    /\ IsArr(v)
    /\ Len(v.a) >= 2
    /\ Len(v.a) % 2 = 0
    /\ \A i \in DOMAIN v.a :
          IF i % 2 = 1 THEN IsSchemaLeaf(v.a[i])
          ELSE IsStr(v.a[i]) /\ ToLower(v.a[i].s) \in {"and", "or"}

(* C3: a chain with a dangling trailing operator is rejected with a         *)
(* malformed-group error by both backends, also when it is one              *)
(* sub-expression followed by one operator.                                 *)
C3_DanglingOperatorRejected ==
    (IsDanglingChain(filterInput) /\ Len(data) > 0) =>
        /\ DynDone => dynResult = FilterErr("malformed group filter")
        /\ EntDone =>
              /\ entResult.st = "err"
              /\ entResult.err = "mismatched number of conditions and operators"

(* C4: every malformed expression yields an error value, never a crash:     *)
(* each backend returns a result or an error for every array.               *)
C4_MalformedNeverPanics ==
    IsArr(filterInput) =>
        /\ DynDone => dynResult.st \in {"ok", "err"}
        /\ EntDone => entResult.st \in {"ok", "err"}

\* A chain of odd length, at least three, with arrays where sub-expressions
\* stand and "and" / "or" in any letter case between them.
IsChain(v) ==
    /\ IsArr(v)
    /\ Len(v.a) >= 3
    /\ Len(v.a) % 2 = 1
    /\ \A i \in DOMAIN v.a :
          IF i % 2 = 1 THEN IsArr(v.a[i])
          ELSE IsStr(v.a[i]) /\ ToLower(v.a[i].s) \in {"and", "or"}

RECURSIVE LeftMatch(_, _, _)

\* The first n elements of a chain combined strictly from the left.
LeftMatch(r, elems, n) ==
    IF n = 1 THEN Ev(r, elems[1]).match
    ELSE IF ToLower(elems[n - 1].s) = "and"
    THEN LeftMatch(r, elems, n - 2) /\ Ev(r, elems[n]).match
    ELSE LeftMatch(r, elems, n - 2) \/ Ev(r, elems[n]).match

RECURSIVE LeftPred(_, _)

LeftPred(elems, n) ==
    IF n = 1 THEN Pr(elems[1]).pred
    ELSE IF ToLower(elems[n - 1].s) = "and"
    THEN SqlAnd(<<LeftPred(elems, n - 2), Pr(elems[n]).pred>>)
    ELSE SqlOr(<<LeftPred(elems, n - 2), Pr(elems[n]).pred>>)

IsOrAndChain(v) ==
    /\ IsChain(v)
    /\ Len(v.a) = 5
    /\ ToLower(v.a[2].s) = "or"
    /\ ToLower(v.a[4].s) = "and"

IsNegatedLeaf(v) ==
    /\ IsArr(v)
    /\ Len(v.a) = 2
    /\ v.a[1] = JStr("!")
    /\ IsArr(v.a[2])
    /\ Len(v.a[2].a) = 1
    /\ IsSchemaLeaf(v.a[2].a[1])

(* C6: negation: ["!", [C]] evaluates, without an error, to the negation of *)
(* [C] on every record; a record that lacks the field of C is selected.     *)
C6_NegationNegates ==
    (IsNegatedLeaf(filterInput) /\ DynDone) =>
        /\ dynResult.st = "ok"
        /\ \A j \in DOMAIN data : Ev(data[j], filterInput.a[2]).st = "ok"
        /\ dynResult.records =
              SelectSeq(data, LAMBDA r : ~Ev(r, filterInput.a[2]).match)
        /\ \A j \in DOMAIN data :
              filterInput.a[2].a[1].a[1].s \notin DOMAIN data[j] =>
                  \E i \in DOMAIN dynResult.records : dynResult.records[i] = data[j]

C6_Witness ==
    /\ filterInput = JArr(<<JStr("!"), JArr(<<AmountIs100>>)>>)
    /\ dynResult.st = "ok"
    /\ Len(dynResult.records) > 0
    /\ Len(dynResult.records) < Len(data)
    /\ \E i \in DOMAIN dynResult.records : "amount" \notin DOMAIN dynResult.records[i]

\* A leaf [f, "between", [lo, hi]] on an int, float or timestamp field,
\* with bounds of the field's type.
IsBetweenLeaf(v) ==
    /\ IsSchemaLeaf(v)
    /\ IsStr(v.a[2])
    /\ ToLower(v.a[2].s) = "between"
    /\ IsArr(v.a[3])
    /\ Len(v.a[3].a) = 2
    /\ LET type == schema.FieldMap[ToLower(v.a[1].s)].Type
           bounds == v.a[3].a
       IN  \/ type \in {"int", "float64"} /\ \A i \in 1..2 : bounds[i].k = "num"
           \/ type = "time.Time" /\ \A i \in 1..2 : convertToTime(bounds[i]).ok

\* A number or a timestamp as a point of the line.
Point(v) == IF v.k = "str" THEN convertToTime(v).t * 10 ELSE v.n * 10 + v.f

\* lo <= r[f] <= hi, for a record r that has the field f.
InRange(r, leaf) ==
    /\ leaf.a[1].s \in DOMAIN r
    /\ Point(leaf.a[3].a[1]) <= Point(r[leaf.a[1].s])
    /\ Point(r[leaf.a[1].s]) <= Point(leaf.a[3].a[2])

(* C7: "between" is inclusive on both bounds in both backends: the leaf     *)
(* [f, "between", [lo, hi]] selects exactly the records with                *)
(* lo <= value <= hi, the bounds themselves included.                       *)
C7_BetweenInclusive ==
    IsBetweenLeaf(filterInput) =>
        /\ DynDone =>
              /\ dynResult.st = "ok"
              /\ dynResult.records = SelectSeq(data, LAMBDA r : InRange(r, filterInput))
        /\ EntDone =>
              /\ entResult.st = "ok"
              /\ SelectRows(entResult.pred, data) =
                    SelectSeq(data, LAMBDA r : InRange(r, filterInput))

Amount150Row(r) == "amount" \in DOMAIN r /\ r["amount"] = JNum(150)

OutOfOrderAmount == Leaf("amount", "between", JArr(<<JNum(200), JNum(100)>>))

(* C8, as claimed: with the bounds out of order, the leaf                   *)
(* ["amount", "between", [200, 100]] selects a record whose amount is 150.  *)
C8_OutOfOrderBoundsMatch ==
    filterInput = OutOfOrderAmount =>
        \A j \in DOMAIN data :
            Amount150Row(data[j]) =>
                /\ DynDone =>
                      \E i \in DOMAIN dynResult.records : dynResult.records[i] = data[j]
                /\ EntDone => entResult.st = "ok" /\ Accepts(entResult.pred, data[j])

(* C8, amended: with the lower bound above the upper bound, the builder     *)
(* keeps the bounds as given, field >= lower AND field <= upper, a range no *)
(* value is in: the leaf selects no record, the record with amount 150 for  *)
(* ["amount", "between", [200, 100]] included, in either backend.           *)
C8_OutOfOrderBoundsMatchNothing ==
    (/\ IsBetweenLeaf(filterInput)
     /\ Point(filterInput.a[3].a[1]) > Point(filterInput.a[3].a[2])) =>
        /\ EntDone =>
              /\ entResult.st = "ok"
              /\ entResult.pred.t = "and"
              /\ Len(entResult.pred.kids) = 2
              /\ entResult.pred.kids[1].op = "GTE"
              /\ Point(entResult.pred.kids[1].val) = Point(filterInput.a[3].a[1])
              /\ entResult.pred.kids[2].op = "LTE"
              /\ Point(entResult.pred.kids[2].val) = Point(filterInput.a[3].a[2])
              /\ SelectRows(entResult.pred, data) = <<>>
        /\ DynDone => dynResult = FilterOk(<<>>)

C8_Witness ==
    /\ filterInput = OutOfOrderAmount
    /\ \E j \in DOMAIN data : Amount150Row(data[j])
    /\ entResult.st = "ok"
    /\ dynResult.st = "ok"
    /\ dynResult.records = <<>>

RECURSIVE IsWellFormed(_)

\* An expression of the grammar: the empty filter, a leaf with a string
\* operator, ["!", operand], or sub-expressions with "and" / "or" between.
IsWellFormed(v) ==
    /\ IsArr(v)
    /\ \/ v.a = <<>>
       \/ /\ Len(v.a) = 3
          /\ IsStr(v.a[1])
          /\ v.a[1].s # "!"
          /\ IsStr(v.a[2])
       \/ /\ Len(v.a) = 2
          /\ v.a[1] = JStr("!")
          /\ IsWellFormed(v.a[2])
       \/ /\ Len(v.a) % 2 = 1
          /\ \A i \in DOMAIN v.a :
                IF i % 2 = 1 THEN IsWellFormed(v.a[i])
                ELSE IsStr(v.a[i]) /\ ToLower(v.a[i].s) \in {"and", "or"}

RECURSIVE NamesUnknownField(_)

\* Some leaf of the expression, at any depth, is on a field the schema
\* does not have.  A leaf's value is no sub-expression.
NamesUnknownField(v) ==
    /\ IsArr(v)
    /\ IF Len(v.a) = 3 /\ IsStr(v.a[1])
       THEN ToLower(v.a[1].s) \notin DOMAIN schema.FieldMap
       ELSE \E i \in DOMAIN v.a : NamesUnknownField(v.a[i])

(* C9: a leaf on a field absent from the schema makes the whole filter call *)
(* fail with an unknown-field error in both backends, wherever the leaf is  *)
(* nested: FilterDynamicData returns the error and no records, and          *)
(* ParseFilterToPredicates returns the error and no predicate.              *)
C9_UnknownFieldFails ==
    (IsWellFormed(filterInput) /\ NamesUnknownField(filterInput)) =>
        /\ DynDone => dynResult = FilterErr("field not found in schema")
        /\ EntDone => entResult = PredErr("field not found in schema")

\* The record is among the selected ones.
Selected(r) == \E i \in DOMAIN dynResult.records : dynResult.records[i] = r

\* [L, "or", M] with leaves L and M on fields of the schema.
IsLeafOrLeaf(v) ==
    /\ IsChain(v)
    /\ Len(v.a) = 3
    /\ ToLower(v.a[2].s) = "or"
    /\ IsSchemaLeaf(v.a[1])
    /\ IsSchemaLeaf(v.a[3])

(* C10: a record that lacks the field of a leaf never causes an error: for  *)
(* every operator and filter value the leaf is false on that record, so the *)
(* record is not selected by the leaf alone, and the rest of the expression *)
(* is still evaluated: under [L, "or", M] the record is selected exactly    *)
(* when M matches it.                                                       *)
C10_MissingFieldIsNonMatch ==
    DynDone =>
        /\ IsSchemaLeaf(filterInput) =>
              /\ dynResult.st = "ok"
              /\ \A j \in DOMAIN data :
                    filterInput.a[1].s \notin DOMAIN data[j] => ~Selected(data[j])
        /\ IsLeafOrLeaf(filterInput) =>
              /\ dynResult.st = "ok"
              /\ \A j \in DOMAIN data :
                    filterInput.a[1].a[1].s \notin DOMAIN data[j] =>
                        (Selected(data[j]) <=> Ev(data[j], filterInput.a[3]).match)

\* qty > 150 or amount = 400, on a record without qty whose amount is 400,
\* next to a record that has qty: the first is selected.
C10_Witness ==
    /\ filterInput = JArr(<<Leaf("qty", ">", JNum(150)), JStr("or"), AmountIs400>>)
    /\ dynResult.st = "ok"
    /\ \E j \in DOMAIN data :
          /\ "qty" \notin DOMAIN data[j]
          /\ data[j]["amount"] = JNum(400)
          /\ Selected(data[j])
    /\ \E j \in DOMAIN data : "qty" \in DOMAIN data[j] /\ ~Selected(data[j])

RECURSIVE Parts(_)

\* The values in sub-expression position inside an expression, at any
\* depth: the operand of "!", and every other element of a group, from the
\* first.  A leaf has none.
Parts(v) ==
    IF ~IsArr(v) \/ v.a = <<>> THEN {}
    ELSE IF v.a[1] = JStr("!")
    THEN IF Len(v.a) = 2 THEN {v.a[2]} \cup Parts(v.a[2]) ELSE {}
    ELSE IF Len(v.a) = 3 /\ IsStr(v.a[1]) THEN {}
    ELSE UNION {{v.a[i]} \cup Parts(v.a[i]) : i \in {k \in DOMAIN v.a : k % 2 = 1}}

(* C11: errors propagate through the recursion: when a sub-expression at    *)
(* any depth fails, the whole call fails and returns nothing, no records    *)
(* from FilterDynamicData and no predicate from ParseFilterToPredicates,    *)
(* whatever the operators around it and the values of the other             *)
(* sub-expressions are.                                                     *)
C11_ErrorsPropagate ==
    /\ (EntDone /\ \E x \in Parts(filterInput) : Pr(x).st = "err") =>
          /\ entResult.st = "err"
          /\ entResult.pred = NilPred
    /\ (DynDone /\ \E x \in Parts(filterInput) :
                      IsArr(x) /\ \E j \in DOMAIN data : Ev(data[j], x).st = "err") =>
          /\ dynResult.st # "ok"
          /\ dynResult.records = <<>>
          /\ IsWellFormed(filterInput) => dynResult.st = "err"

\* (amount = 100 or <unknown field>) and name has "Trans 1", on a table
\* whose first record has amount 100: the "or" is true before the failing
\* leaf is reached, two levels down.
C11_Witness ==
    /\ filterInput = JArr(<<JArr(<<AmountIs100, JStr("or"), UnknownFieldLeaf>>),
                            JStr("and"), NameHasTrans1>>)
    /\ Len(data) > 0
    /\ Ev(data[1], AmountIs100).match
    /\ dynResult = FilterErr("field not found in schema")
    /\ entResult = PredErr("field not found in schema")

\* [L, "and" / "or", M] with leaves L and M on fields of the schema.
IsLeafPair(v) ==
    /\ IsChain(v)
    /\ Len(v.a) = 3
    /\ IsSchemaLeaf(v.a[1])
    /\ IsSchemaLeaf(v.a[3])

\* [[A, op, B], op', C]: a group first, then a leaf.
IsLeftNested(v) ==
    /\ IsChain(v)
    /\ Len(v.a) = 3
    /\ IsLeafPair(v.a[1])
    /\ IsSchemaLeaf(v.a[3])

\* [A, op', [B, op, C]]: a leaf first, then a group.
IsRightNested(v) ==
    /\ IsChain(v)
    /\ Len(v.a) = 3
    /\ IsSchemaLeaf(v.a[1])
    /\ IsLeafPair(v.a[3])

BoolOp(x, op, y) == IF ToLower(op.s) = "and" THEN x /\ y ELSE x \/ y

PredOp(p, op, q) == IF ToLower(op.s) = "and" THEN SqlAnd(<<p, q>>) ELSE SqlOr(<<p, q>>)

\* The nested filter of the tests and the two records of its scenario.
NestedTestFilter ==
    JArr(<<JArr(<<NameHasTrans0, JStr("or"), NameHasTrans1>>), JStr("and"),
           AmountIs100>>)

NestedTestData ==
    <<[amount |-> JNum(100), name |-> JStr("Trans 1")],
      [amount |-> JNum(200), name |-> JStr("Trans 0")]>>

(* C12: a nested sub-array is evaluated as a unit before it is combined:    *)
(* [[A, "or", B], "and", C] selects the records with (A or B) and C, and a  *)
(* group in second place is a unit as well; the builder nests the group's   *)
(* predicate in the same way.  On the records {amount 100, name "Trans 1"}  *)
(* and {amount 200, name "Trans 0"}, (name has "Trans 0" or name has        *)
(* "Trans 1") and amount = 100 selects exactly the first.                   *)
C12_NestedGroupIsUnit ==
    /\ IsLeftNested(filterInput) =>
          LET g == filterInput.a[1].a
              op == filterInput.a[2]
              C == filterInput.a[3]
          IN  /\ DynDone =>
                    dynResult = FilterOk(SelectSeq(data, LAMBDA r :
                        BoolOp(BoolOp(Ev(r, g[1]).match, g[2], Ev(r, g[3]).match),
                               op, Ev(r, C).match)))
              /\ EntDone =>
                    entResult = PredOk(PredOp(PredOp(Pr(g[1]).pred, g[2], Pr(g[3]).pred),
                                              op, Pr(C).pred))
    /\ IsRightNested(filterInput) =>
          LET g == filterInput.a[3].a
              op == filterInput.a[2]
              A == filterInput.a[1]
          IN  /\ DynDone =>
                    dynResult = FilterOk(SelectSeq(data, LAMBDA r :
                        BoolOp(Ev(r, A).match, op,
                               BoolOp(Ev(r, g[1]).match, g[2], Ev(r, g[3]).match))))
              /\ EntDone =>
                    entResult = PredOk(PredOp(Pr(A).pred, op,
                                              PredOp(Pr(g[1]).pred, g[2], Pr(g[3]).pred)))
    /\ (filterInput = NestedTestFilter /\ data = NestedTestData) =>
          /\ DynDone => dynResult = FilterOk(<<NestedTestData[1]>>)
          /\ EntDone =>
                /\ entResult.st = "ok"
                /\ SelectRows(entResult.pred, data) = <<NestedTestData[1]>>

C12_Witness ==
    /\ filterInput = NestedTestFilter
    /\ data = NestedTestData
    /\ dynResult.records = <<NestedTestData[1]>>
    /\ entResult.st = "ok"
    /\ entResult.pred.t = "and"
    /\ entResult.pred.kids[1].t = "or"

\* The spellings of a string in other letter case.
CaseVariants(str) ==
    {x \in {"foo", "Foo", "FOO", "bar", "Bar", "foobar", "FooBar"} :
        ToLower(x) = ToLower(str)} \cup {str}

\* A leaf on a field of type string, with one of the six string operators
\* and a string to compare with.
IsStringLeaf(v) ==
    /\ IsSchemaLeaf(v)
    /\ schema.FieldMap[ToLower(v.a[1].s)].Type = "string"
    /\ IsStr(v.a[2])
    /\ ToLower(v.a[2].s) \in StringOps
    /\ IsStr(v.a[3])

(* C13: in-memory string comparisons are case-insensitive: for a string     *)
(* field, what each of =, <>, contains, notcontains, startswith and         *)
(* endswith answers for a record is the same for every letter case of the   *)
(* record's value and of the filter's value; a record with name "Foo"       *)
(* matches ["name", "=", "foo"].                                            *)
C13_StringComparisonIgnoresCase ==
    (IsStringLeaf(filterInput) /\ DynDone) =>
        LET field == filterInput.a[1].s
            op == filterInput.a[2].s
            value == filterInput.a[3].s
        IN  /\ dynResult.st = "ok"
            /\ \A j \in DOMAIN data :
                  field \in DOMAIN data[j] =>
                      \A rv \in CaseVariants(data[j][field].s) :
                          \A fv \in CaseVariants(value) :
                              Selected(data[j]) <=>
                                  evaluateCondition(JStr(rv), op, JStr(fv), "string")
            /\ (op = "=" /\ value = "foo") =>
                  \A j \in DOMAIN data :
                      (field \in DOMAIN data[j] /\ data[j][field] = JStr("Foo")) =>
                          Selected(data[j])

C13_Witness ==
    /\ filterInput = Leaf("name", "=", JStr("foo"))
    /\ dynResult.st = "ok"
    /\ \E j \in DOMAIN data :
          /\ "name" \in DOMAIN data[j]
          /\ data[j]["name"] = JStr("Foo")
          /\ Selected(data[j])
    /\ \E j \in DOMAIN data :
          /\ "name" \in DOMAIN data[j]
          /\ data[j]["name"] = JStr("FooBar")
          /\ ~Selected(data[j])

\* The leaf with its field name in lower case.
LowerField(v) == JArr(<<JStr(ToLower(v.a[1].s)), v.a[2], v.a[3]>>)

(* C14: field names are compared case-insensitively everywhere: writing the *)
(* field name of a leaf in another letter case, ["AMOUNT", "=", 100] for    *)
(* ["amount", "=", 100], changes neither the records selected nor whether   *)
(* the call fails, in memory and in the adapter's field lookup.             *)
C14_FieldNameIgnoresCase ==
    IsSchemaLeaf(filterInput) =>
        /\ DynDone => dynResult = FilterDynamicData(data, schema, LowerField(filterInput))
        /\ EntDone => entResult = Pr(LowerField(filterInput))

\* The records a filter is true for, in their order; nil and the empty
\* filter are true for every record.
Matching(records, input) ==
    IF input = JNull \/ input = EmptyFilter THEN records
    ELSE SelectSeq(records, LAMBDA r : Ev(r, input).st = "ok" /\ Ev(r, input).match)

(* C15: the in-memory result is a filtered subsequence: when the filter     *)
(* evaluates without error, FilterDynamicData returns exactly the input     *)
(* records the filter is true for, each once and in their original order,   *)
(* and the input records are what they were before the call.                *)
C15_FilteredSubsequence ==
    [][DynamicTableFilter =>
          /\ data' = data
          /\ dynResult'.st = "ok" => dynResult'.records = Matching(data, filterInput)]_vars

\* Two of three records are selected, the first and the third, in that order.
C15_Witness ==
    /\ filterInput = NameHasTrans1
    /\ Len(data) = 3
    /\ dynResult.st = "ok"
    /\ dynResult.records = <<data[1], data[3]>>

\* What the call returns when it runs alone, from its first step to its
\* last with no other call in between.
Sequential(call) ==
    IF call.kind = "dyn"
    THEN CallResult(FilterDynamicData(data, schema, call.filter))
    ELSE LET got == GetAdapter(registeredAdapters, call.entity)
         IN  IF got.ok
             THEN CallResult(ParseFilterToPredicates(got.adapter, call.filter))
             ELSE CallResult(PredErr("no adapter registered"))

(* C16: evaluation touches no shared mutable state: once requests are       *)
(* served, no step writes the adapter registry (with the schemas and field  *)
(* indexes held by its adapters), the table's schema or the records, the    *)
(* registry being written during initialisation only; hence every call, run *)
(* interleaved with others, returns what it returns when run alone.         *)
C16_NoSharedMutableState ==
    /\ [][serving => UNCHANGED <<registeredAdapters, schema, data>>]_vars
    /\ [][(registeredAdapters' # registeredAdapters) => ~serving']_vars
    /\ [](\A c \in Calls :
            calls[c].pc = "done" => calls[c].result = Sequential(calls[c]))

\* One call has finished while the other is in the middle of its loop over
\* the records, one record evaluated and selected.
C16_Witness ==
    /\ serving
    /\ calls[1].pc = "loop"
    /\ calls[1].i = 2
    /\ Len(calls[1].filteredResults) = 1
    /\ calls[2].pc = "done"
    /\ calls[2].kind = "ent"
    /\ calls[2].result.st = "ok"
    /\ calls[2].result.pred # NilPred

\* An array of three elements whose first is "and", "or" or "!".
StartsWithReservedToken(v) ==
    /\ IsArr(v)
    /\ Len(v.a) = 3
    /\ IsStr(v.a[1])
    /\ ToLower(v.a[1].s) \in {"and", "or", "!"}

(* C17: reserved tokens are never leaves: in both backends an array of      *)
(* three elements whose first is "and", "or" or "!" is not treated as a     *)
(* leaf condition, its first element is not looked up as a field name, also *)
(* when the schema has a field named "and" or "or"; such an array goes the  *)
(* way of groups and negations, where it is malformed.                      *)
C17_ReservedTokensAreNoLeaves ==
    (StartsWithReservedToken(filterInput) /\ Len(data) > 0) =>
        /\ DynDone =>
              /\ dynResult.st # "ok"
              /\ dynResult.err # "field not found in schema"
        /\ EntDone =>
              /\ entResult.st = "err"
              /\ entResult.err \in {"filter input is not an array", "malformed NOT filter"}

\* The operators defined for a declared type.
OperatorsOf(type) ==
    CASE type \in {"string", "text"} -> StringOps
      [] type \in {"int", "float64", "time.Time"} -> OrderedOps \cup {"between"}
      [] type = "bool" -> BoolOps
      [] OTHER -> {}

\* A leaf on a schema field whose operator is none of the field's type.
HasUnsupportedOperator(v) ==
    /\ IsSchemaLeaf(v)
    /\ IsStr(v.a[2])
    /\ ToLower(v.a[2].s) \notin OperatorsOf(schema.FieldMap[ToLower(v.a[1].s)].Type)

(* C18: a leaf on a schema field whose lower-cased operator is not among    *)
(* the operators of the field's declared type, "between" on a string, text  *)
(* or bool field included, fails with an unsupported-operator error in both *)
(* backends, whatever the leaf's value is.                                  *)
C18_UnsupportedOperatorFails ==
    HasUnsupportedOperator(filterInput) =>
        /\ (DynDone /\ Len(data) > 0) =>
              /\ dynResult.st = "err"
              /\ dynResult.err = "unsupported operator"
        /\ EntDone =>
              /\ entResult.st = "err"
              /\ entResult.err \in {"unsupported operator",
                                    "between not supported for field type"}

\* A leaf on a schema field whose operator slot holds no string.
HasNonStringOperator(v) == IsSchemaLeaf(v) /\ ~IsStr(v.a[2])

(* C19: a leaf whose operator slot is not a string, ["amount", 5, 100], is  *)
(* rejected with an invalid-operator error in both backends; it never       *)
(* evaluates to a boolean or a predicate.                                   *)
C19_NonStringOperatorRejected ==
    HasNonStringOperator(filterInput) =>
        /\ (DynDone /\ Len(data) > 0) => dynResult.st = "err"
        /\ EntDone => entResult = PredErr("operator must be a string")

\* An array whose first element is "!".
StartsWithNot(v) == IsArr(v) /\ Len(v.a) >= 1 /\ v.a[1] = JStr("!")

\* A negation with an array as its one operand.
IsShapedNot(v) == StartsWithNot(v) /\ Len(v.a) = 2 /\ IsArr(v.a[2])

(* C20: negation arity and shape: in both backends an array whose first     *)
(* element is "!" is rejected with a malformed-NOT error when it does not   *)
(* have exactly two elements or its second element is not an array, null    *)
(* included; otherwise the result is the negation of the operand's result.  *)
C20_NegationArityAndShape ==
    StartsWithNot(filterInput) =>
        IF ~IsShapedNot(filterInput)
        THEN /\ (DynDone /\ Len(data) > 0) =>
                   /\ dynResult.st = "err"
                   /\ dynResult.err \in {"malformed NOT filter",
                                         "NOT filter operand must be an array"}
             /\ EntDone => entResult.st = "err"
        ELSE LET operand == filterInput.a[2]
             IN  /\ (DynDone /\ \A j \in DOMAIN data : Ev(data[j], operand).st = "ok") =>
                       dynResult =
                           FilterOk(SelectSeq(data, LAMBDA r : ~Ev(r, operand).match))
                 /\ (EntDone /\ Pr(operand).st = "ok") =>
                       /\ entResult.st = "ok"
                       /\ SelectRows(entResult.pred, data) =
                             SelectSeq(data, LAMBDA r : ~Accepts(Pr(operand).pred, r))

----------------------------------------------------------------------------
(* Chains of the transactions table whose operator positions hold every     *)
(* kind of token: "and" and "or" in several letter cases, other strings,    *)
(* and values that are no strings.                                          *)

OperatorTokens ==
    {JStr("and"), JStr("AND"), JStr("And"), JStr("or"), JStr("OR"), JStr("Or"),
     JStr("xor"), JStr(""), JStr("!"), JNum(5), JNull, JBool(TRUE), EmptyFilter}

OperatorChains ==
    {JArr(<<x, c, y>>) :
        x \in {AmountIs100, NameHasTrans1, EmptyFilter}, c \in OperatorTokens,
        y \in {AmountIs100, NameHasTrans0, EmptyFilter}}
        \cup {JArr(<<AmountIs100, c, NameHasTrans1, d, y>>) :
                c \in OperatorTokens, d \in OperatorTokens,
                y \in {NameHasTrans0, JArr(<<JStr("!"), AmountIs100>>)}}

InitOperators ==
    /\ schema = LoadTableSchema("transaction", TransactionFields)
    /\ data \in TransactionData
    /\ filterInput \in OperatorChains
    /\ dynResult = NoFilterResult
    /\ entResult = NoPredResult
    /\ registeredAdapters = RegisterAll(NoAdapters, 1)
    /\ serving = TRUE
    /\ calls = <<>>

SpecOperators == InitOperators /\ [][Next]_vars

\* The elements at the odd indices (0-based) of a chain.
OperatorSlots(v) == {v.a[i] : i \in {j \in DOMAIN v.a : j % 2 = 0}}

\* A chain of odd length whose sub-expressions are arrays.
IsOddChain(v) ==
    /\ IsArr(v)
    /\ Len(v.a) >= 3
    /\ Len(v.a) % 2 = 1
    /\ \A i \in DOMAIN v.a : i % 2 = 1 => IsArr(v.a[i])

IsLogicalOperator(c) == IsStr(c) /\ ToLower(c.s) \in {"and", "or"}

\* The chain with its logical operators written in lower case.
LowerOperators(v) ==
    JArr([i \in DOMAIN v.a |->
            IF i % 2 = 0 /\ IsStr(v.a[i]) THEN JStr(ToLower(v.a[i].s)) ELSE v.a[i]])

InvalidLogicalOperator == {"invalid logical operator", "logical operator must be a string"}

(* C21: in a chain every element at an odd index must be "and" or "or" in   *)
(* any letter case.  A chain written with "AND" or "Or" gives, in both      *)
(* backends, the result of the chain written with "and" and "or"; a chain   *)
(* of sub-expressions that do not fail with any other string, or a value    *)
(* that is no string, at an odd index makes the call fail with an invalid-  *)
(* logical-operator error in both backends.                                 *)
C21_LogicalOperatorValidity ==
    (/\ IsOddChain(filterInput)
     /\ \A i \in DOMAIN filterInput.a :
           i % 2 = 1 => /\ Pr(filterInput.a[i]).st = "ok"
                        /\ \A j \in DOMAIN data : Ev(data[j], filterInput.a[i]).st = "ok") =>
        IF \A c \in OperatorSlots(filterInput) : IsLogicalOperator(c)
        THEN /\ DynDone =>
                   dynResult = FilterDynamicData(data, schema, LowerOperators(filterInput))
             /\ EntDone => entResult = Pr(LowerOperators(filterInput))
        ELSE /\ DynDone =>
                   /\ dynResult.st = "err"
                   /\ dynResult.err \in InvalidLogicalOperator
             /\ EntDone =>
                   /\ entResult.st = "err"
                   /\ entResult.err \in InvalidLogicalOperator

----------------------------------------------------------------------------
(* Leaf conditions on the typed table whose record values and filter        *)
(* values are of every kind: of the field's type, of another type, and      *)
(* texts that do and do not parse.                                          *)

\* Rows of the typed table; the second and third hold values of other
\* types than their fields'.
CoercionPool ==
    <<[amount |-> JNum(150), qty |-> JNum(1), flag |-> JBool(TRUE),
       when |-> JStr("2024-01-02")],
      [amount |-> JStr("150"), qty |-> JStr("3"), flag |-> JStr("true"),
       when |-> JStr("yesterday")],
      [amount |-> JBool(TRUE), qty |-> JNull, flag |-> JNum(1), when |-> JNum(5)],
      [amount |-> JNum(200), qty |-> JNum(3), flag |-> JBool(FALSE),
       when |-> JStr("2024-01-03")]>>

CoercionData == SubLists(FirstN(CoercionPool, MaxRecords))

CoercionFields == {"amount", "qty", "flag", "when"}

CoercionOperators == {"=", "<>", ">", ">=", "<", "<=", "between", "contains"}

CoercionValues ==
    {JNum(150), JNum(1), JNum(0), JNum(3), JFrac(1, 5), JStr("150"), JStr("1.5"),
     JStr("abc"), JBool(TRUE), JBool(FALSE), JStr("true"), JStr("TRUE"),
     JStr("False"), JStr("yes"), JStr("1"), JStr("0"), JStr("t"), JStr("f"),
     JStr("2024-01-02"), JStr("yesterday"), JNull, JArr(<<JNum(1), JNum(3)>>)}

CoercionLeaves ==
    {Leaf(f, o, v) : f \in CoercionFields, o \in CoercionOperators, v \in CoercionValues}

InitCoercion ==
    /\ schema = LoadTableSchema("typed", TypedFields)
    /\ data \in CoercionData
    /\ filterInput \in CoercionLeaves
    /\ dynResult = NoFilterResult
    /\ entResult = NoPredResult
    /\ registeredAdapters = RegisterAll(NoAdapters, 1)
    /\ serving = TRUE
    /\ calls = <<>>

SpecCoercion == InitCoercion /\ [][Next]_vars

\* The declared type of the field a leaf names.
TypeOf(leaf) == schema.FieldMap[ToLower(leaf.a[1].s)].Type

\* A record value is of its field's type: a JSON number for int and
\* float64, a JSON boolean for bool, a timestamp text for time.Time.
RecordCoerces(type, v) ==
    CASE type \in {"int", "float64"} -> v.k = "num"
      [] type = "bool" -> v.k = "bool"
      [] type = "time.Time" -> IsStr(v) /\ v.s \in DOMAIN TimeStrings
      [] OTHER -> TRUE

\* A filter value reads as a value of the type: its text, as fmt.Sprintf
\* prints it, is a decimal number, a text strconv.ParseBool accepts in lower
\* case, or a timestamp.
FilterCoerces(type, v) ==
    CASE type \in {"int", "float64"} ->
            v.k = "num" \/ Sprintf(v) \in DOMAIN NumericStrings
      [] type = "bool" ->
            ToLower(Sprintf(v)) \in {"1", "t", "true", "0", "f", "false"}
      [] type = "time.Time" -> Sprintf(v) \in DOMAIN TimeStrings
      [] OTHER -> TRUE

\* Leaf and record are such that a coercion fails.
CoercionFails(leaf, r) ==
    /\ leaf.a[1].s \in DOMAIN r
    /\ \/ ~RecordCoerces(TypeOf(leaf), r[leaf.a[1].s])
       \/ ~FilterCoerces(TypeOf(leaf), leaf.a[3])

(* C22: in the in-memory evaluator a coercion failure is no error: when the *)
(* record's value or the filter's value cannot be coerced to the declared   *)
(* type of the field (int, float64, bool, time.Time), the leaf is false     *)
(* for that record under every operator, "<>" included, and                 *)
(* FilterDynamicData returns no error and does not select the record.       *)
C22_CoercionFailureIsFalse ==
    (IsSchemaLeaf(filterInput) /\ IsStr(filterInput.a[2])) =>
        /\ \A j \in DOMAIN data :
              CoercionFails(filterInput, data[j]) =>
                  Ev(data[j], filterInput) = MatchOk(FALSE)
        /\ DynDone =>
              /\ dynResult.st = "ok"
              /\ \A j \in DOMAIN data :
                    CoercionFails(filterInput, data[j]) =>
                        \A k \in DOMAIN dynResult.records :
                            dynResult.records[k] # data[j]

\* FilterDynamicData has answered a "<>" leaf on the int field with a text
\* that is no number, on a table with records: no error and no record.
C22_Witness ==
    /\ filterInput = Leaf("qty", "<>", JStr("abc"))
    /\ Len(data) = 3
    /\ dynResult = FilterOk(<<>>)

\* A leaf on an int field whose value is a number with a fractional part.
IsFractionalIntLeaf(v) ==
    /\ IsSchemaLeaf(v)
    /\ IsStr(v.a[2])
    /\ TypeOf(v) = "int"
    /\ v.a[3].k = "num"
    /\ v.a[3].f # 0

(* C23: for an int field a filter value with a nonzero fractional part,     *)
(* 1.5, is a coercion failure in both backends and is never truncated: the  *)
(* predicate builder returns an error, and in memory the leaf is false for  *)
(* every record and operator, so that no record is selected.                *)
C23_FractionIsNoInt ==
    IsFractionalIntLeaf(filterInput) =>
        /\ EntDone => entResult.st = "err"
        /\ \A j \in DOMAIN data : Ev(data[j], filterInput) = MatchOk(FALSE)
        /\ DynDone => dynResult = FilterOk(<<>>)

\* A boolean, or a text equal to "true" or "false" ignoring case.
IsBoolValue(v) == v.k = "bool" \/ (IsStr(v) /\ ToLower(v.s) \in {"true", "false"})

\* A leaf with "=" or "<>" on a bool field.
IsBoolLeaf(v) ==
    /\ IsSchemaLeaf(v)
    /\ IsStr(v.a[2])
    /\ TypeOf(v) = "bool"
    /\ ToLower(v.a[2].s) \in BoolOps

(* C24: for a bool field a filter value is accepted only if it is a boolean *)
(* or a text equal, ignoring case, to "true" or "false".  Every other       *)
(* value, "1", "t", "0", "f" or the number 1, is a coercion failure: the    *)
(* predicate builder returns an error, and in memory the leaf is false for  *)
(* every record.                                                            *)
C24_BoolValuesOnly ==
    (IsBoolLeaf(filterInput) /\ ~IsBoolValue(filterInput.a[3])) =>
        /\ EntDone => entResult.st = "err"
        /\ \A j \in DOMAIN data : Ev(data[j], filterInput) = MatchOk(FALSE)
        /\ DynDone => dynResult = FilterOk(<<>>)

\* The fields of the schema with every text field declared string.
TextAsString(fields) ==
    [i \in DOMAIN fields |->
        IF fields[i].Type = "text"
        THEN [Name |-> fields[i].Name, Type |-> "string"]
        ELSE fields[i]]

\* A leaf on a field declared text.
IsTextLeaf(v) == IsSchemaLeaf(v) /\ TypeOf(v) = "text"

(* C25: a field declared text behaves as a field declared string in both    *)
(* backends: for the same records, operator and filter value, a leaf on a   *)
(* text field gives the result it gives when the field is declared string.  *)
C25_TextIsString ==
    IsTextLeaf(filterInput) =>
        /\ DynDone =>
              dynResult =
                  FilterDynamicData(data,
                                    LoadTableSchema(schema.EntityName,
                                                    TextAsString(schema.Fields)),
                                    filterInput)
        /\ EntDone =>
              entResult =
                  ParseFilterToPredicates(
                      NewGenericEntAdapter(schema.EntityName,
                                           TextAsString(schema.Fields)),
                      filterInput)

----------------------------------------------------------------------------
(* The combinators of GenericEntAdapter called by themselves: a call with   *)
(* its operands is there from the start, and the function returns.          *)

MaxOperands == 3

AmountPredicate == SqlCmp("EQ", "amount", JNum(100))

NamePredicate == SqlCmp("ContainsFold", "name", JStr("Trans 1"))

OperandPredicates == {NilPred, AmountPredicate, NamePredicate}

\* The operand lists of a variadic call: nil and non-nil predicates mixed.
OperandLists == UNION {[1..n -> OperandPredicates] : n \in 0..MaxOperands}

CombinatorCall(fn, predicates) ==
    [fn |-> fn, predicates |-> predicates, returned |-> FALSE, result |-> NilPred]

CombinatorCalls ==
    {CombinatorCall(fn, l) : fn \in {"GetAndPredicate", "GetOrPredicate"},
                             l \in OperandLists}
        \cup {CombinatorCall("GetNotPredicate", <<p>>) : p \in OperandPredicates}

InitCombinators ==
    /\ schema = LoadTableSchema("transaction", TransactionFields)
    /\ data = FirstN(TransactionPool, MaxRecords)
    /\ filterInput = JNull
    /\ dynResult = NoFilterResult
    /\ entResult = NoPredResult
    /\ registeredAdapters = RegisterAll(NoAdapters, 1)
    /\ serving = TRUE
    /\ calls \in {<<c>> : c \in CombinatorCalls}

Returns(call, p) == [call EXCEPT !.returned = TRUE, !.result = p]

CallGetAndPredicate ==
    /\ calls[1].fn = "GetAndPredicate"
    /\ ~calls[1].returned
    /\ calls' = <<Returns(calls[1], GetAndPredicate(calls[1].predicates))>>
    /\ UNCHANGED <<schema, data, filterInput, dynResult, entResult,
                   registeredAdapters, serving>>

CallGetOrPredicate ==
    /\ calls[1].fn = "GetOrPredicate"
    /\ ~calls[1].returned
    /\ calls' = <<Returns(calls[1], GetOrPredicate(calls[1].predicates))>>
    /\ UNCHANGED <<schema, data, filterInput, dynResult, entResult,
                   registeredAdapters, serving>>

CallGetNotPredicate ==
    /\ calls[1].fn = "GetNotPredicate"
    /\ ~calls[1].returned
    /\ calls' = <<Returns(calls[1], GetNotPredicate(calls[1].predicates[1]))>>
    /\ UNCHANGED <<schema, data, filterInput, dynResult, entResult,
                   registeredAdapters, serving>>

NextCombinators == CallGetAndPredicate \/ CallGetOrPredicate \/ CallGetNotPredicate

SpecCombinators == InitCombinators /\ [][NextCombinators]_vars

RECURSIVE NonNil(_)

\* The operands that are not nil, in their order.
NonNil(predicates) ==
    IF predicates = <<>> THEN <<>>
    ELSE IF Head(predicates) = NilPred THEN NonNil(Tail(predicates))
    ELSE <<Head(predicates)>> \o NonNil(Tail(predicates))

(* C26: degenerate combinators.  GetAndPredicate and GetOrPredicate ignore  *)
(* nil operands: with no operand that is not nil they return nil, the       *)
(* predicate that filters nothing; with exactly one they return that        *)
(* operand itself, not wrapped in And / Or; with two or more they return    *)
(* the And / Or of the non-nil operands.  GetNotPredicate(nil) is nil.      *)
C26_DegenerateCombinators ==
    \A c \in DOMAIN calls :
        calls[c].returned =>
            LET call == calls[c]
                operands == NonNil(call.predicates)
            IN  IF call.fn = "GetNotPredicate"
                THEN IF call.predicates[1] = NilPred
                     THEN call.result = NilPred
                     ELSE call.result = SqlNot(call.predicates[1])
                ELSE /\ Len(operands) = 0 =>
                           /\ call.result = NilPred
                           /\ SelectRows(call.result, data) = data
                     /\ Len(operands) = 1 => call.result = operands[1]
                     /\ Len(operands) >= 2 =>
                           /\ call.result.t =
                                 (IF call.fn = "GetAndPredicate" THEN "and" ELSE "or")
                           /\ call.result.kids = operands

\* GetAndPredicate has returned its one non-nil operand, given after a nil.
C26_Witness ==
    /\ calls[1].fn = "GetAndPredicate"
    /\ calls[1].predicates = <<NilPred, AmountPredicate>>
    /\ calls[1].returned
    /\ calls[1].result = AmountPredicate

----------------------------------------------------------------------------
(* Schema files of every content: field lists with names that differ in     *)
(* letter case only, loaded by LoadTableSchema and by NewGenericEntAdapter. *)

\* Field definitions a schema file may list; two pairs share a name up to
\* letter case.
FieldDefinitions ==
    <<[Name |-> "amount", Type |-> "float64"],
      [Name |-> "name", Type |-> "string"],
      [Name |-> "Amount", Type |-> "string"],
      [Name |-> "NAME", Type |-> "string"]>>

SchemaFiles == SubLists(FieldDefinitions) \ {<<>>}

SchemaLeaves ==
    {Leaf(f, "=", v) : f \in {"amount", "Amount", "AMOUNT", "name", "NAME", "nope"},
                       v \in {JNum(100), JStr("Trans 1")}}

InitSchemas ==
    /\ \E fields \in SchemaFiles :
          /\ schema = LoadTableSchema("transaction", fields)
          /\ registeredAdapters =
                RegisterAdapter(NoAdapters, "transaction",
                                NewGenericEntAdapter("transaction", fields))
    /\ data \in TransactionData
    /\ filterInput \in SchemaLeaves
    /\ dynResult = NoFilterResult
    /\ entResult = NoPredResult
    /\ serving = TRUE
    /\ calls = <<>>

SpecSchemas == InitSchemas /\ [][Next]_vars

\* The spellings of field names the model looks up.
NameVariants(name) ==
    {x \in {"amount", "Amount", "AMOUNT", "name", "Name", "NAME"} :
        ToLower(x) = ToLower(name)}

\* No two fields share a name ignoring case, the index has one entry per
\* field, and every spelling of a field's name finds that field.
IndexInvariant(sch) ==
    /\ \A i, j \in DOMAIN sch.Fields :
          i # j => ToLower(sch.Fields[i].Name) # ToLower(sch.Fields[j].Name)
    /\ Cardinality(DOMAIN sch.FieldMap) = Len(sch.Fields)
    /\ \A i \in DOMAIN sch.Fields :
          \A x \in NameVariants(sch.Fields[i].Name) :
              /\ ToLower(x) \in DOMAIN sch.FieldMap
              /\ sch.FieldMap[ToLower(x)] = sch.Fields[i]

\* A name no field has is absent from the index.
AbsentIsAbsent(sch) ==
    \A x \in {"amount", "Amount", "name", "NAME", "nope"} :
        (\A i \in DOMAIN sch.Fields : ToLower(sch.Fields[i].Name) # ToLower(x)) =>
            ToLower(x) \notin DOMAIN sch.FieldMap

(* C27: schema index invariant: in every schema built by LoadTableSchema or *)
(* NewGenericEntAdapter no two field definitions share a name ignoring      *)
(* case, the index has exactly one entry per element of Fields, looking up  *)
(* any spelling of a field's name gives that field's own definition, and a  *)
(* name that is not in Fields is absent from the index.                     *)
C27_SchemaIndexInvariant ==
    /\ IndexInvariant(schema)
    /\ AbsentIsAbsent(schema)
    /\ \A e \in DOMAIN registeredAdapters :
          /\ IndexInvariant(registeredAdapters[e].tableSchema)
          /\ AbsentIsAbsent(registeredAdapters[e].tableSchema)

\* A filter that is neither nil nor the empty array.
IsNonEmptyFilter(v) == v # JNull /\ v # EmptyFilter

(* C28: whether FilterDynamicData returns an error depends on the schema    *)
(* and on the filter only, never on the records: for a filter that is       *)
(* neither nil nor empty, the call returns an error for the records of the  *)
(* request exactly when it returns one for every other record list, the     *)
(* empty list included.                                                     *)
C28_ErrorIndependentOfRecords ==
    (DynDone /\ IsNonEmptyFilter(filterInput)) =>
        \A records \in TransactionData :
            (dynResult.st = "err") <=>
                (FilterDynamicData(records, schema, filterInput).st = "err")

\* A chain with an empty array among its sub-expressions, the others having
\* predicates.
HasEmptyOperand(v) ==
    /\ IsChain(v)
    /\ \E i \in DOMAIN v.a : i % 2 = 1 /\ v.a[i] = EmptyFilter
    /\ \A i \in DOMAIN v.a : i % 2 = 1 => Pr(v.a[i]).st = "ok"

(* C29: in ParseFilterToPredicates an empty array inside a chain stands for *)
(* 'match everything': the chain's predicate accepts the rows accepted by   *)
(* the chain with an always-true condition in that place (so [[], "or", C]  *)
(* accepts every row, and [[], "and", C1, "and", C2] what C1 and C2         *)
(* accept), and the well-formed chain never fails with the mismatched-count *)
(* error.                                                                   *)
C29_EmptyOperandMatchesAll ==
    (HasEmptyOperand(filterInput) /\ EntDone) =>
        /\ entResult.st = "ok"
        /\ SelectRows(entResult.pred, data) =
              SelectRows(LeftPred(filterInput.a, Len(filterInput.a)), data)

----------------------------------------------------------------------------
(* The adapter registry by itself: RegisterAdapter and GetAdapter called in *)
(* every order, with names in several letter cases.  calls is the list of   *)
(* the calls made, each with what it returned and the registry it left.     *)

MaxRegistryCalls == 3

RegistryNames == {"transaction", "Transaction", "typed"}

LookupNames == RegistryNames \cup {"nope"}

RegistryAdapters ==
    {NewGenericEntAdapter("transaction", TransactionFields),
     NewGenericEntAdapter("typed", TypedFields)}

InitRegistry ==
    /\ schema = LoadTableSchema("transaction", TransactionFields)
    /\ data = <<>>
    /\ filterInput = JNull
    /\ dynResult = NoFilterResult
    /\ entResult = NoPredResult
    /\ registeredAdapters = NoAdapters
    /\ serving = FALSE
    /\ calls = <<>>

CallRegisterAdapter ==
    /\ Len(calls) < MaxRegistryCalls
    /\ \E entityName \in RegistryNames, adapter \in RegistryAdapters :
          /\ registeredAdapters' = RegisterAdapter(registeredAdapters, entityName, adapter)
          /\ calls' = Append(calls, [fn |-> "RegisterAdapter", entityName |-> entityName,
                                     adapter |-> adapter, ok |-> TRUE,
                                     registeredAdapters |-> registeredAdapters'])
    /\ UNCHANGED <<schema, data, filterInput, dynResult, entResult, serving>>

CallGetAdapter ==
    /\ Len(calls) < MaxRegistryCalls
    /\ \E entityName \in LookupNames :
          LET got == GetAdapter(registeredAdapters, entityName)
          IN  /\ registeredAdapters' = got.registeredAdapters
              /\ calls' = Append(calls, [fn |-> "GetAdapter", entityName |-> entityName,
                                         adapter |-> got.adapter, ok |-> got.ok,
                                         registeredAdapters |-> got.registeredAdapters])
    /\ UNCHANGED <<schema, data, filterInput, dynResult, entResult, serving>>

NextRegistry == CallRegisterAdapter \/ CallGetAdapter

SpecRegistry == InitRegistry /\ [][NextRegistry]_vars

\* The registrations before call k under a name equal to the name of call k
\* ignoring letter case.
RegistrationsBefore(k) ==
    {i \in 1..(k - 1) :
        /\ calls[i].fn = "RegisterAdapter"
        /\ EqualFold(calls[i].entityName, calls[k].entityName)}

Latest(S) == CHOOSE i \in S : \A j \in S : j <= i

(* C30: adapter registry: after any sequence of RegisterAdapter calls,      *)
(* GetAdapter(n) returns the adapter registered last under a name equal to  *)
(* n ignoring letter case, and an error with a nil adapter when there was   *)
(* no such registration; GetAdapter leaves the registry as it was; and the  *)
(* registry holds one adapter per lower-cased name.                         *)
C30_AdapterRegistry ==
    /\ \A k \in DOMAIN calls :
          calls[k].fn = "GetAdapter" =>
              /\ IF RegistrationsBefore(k) = {}
                 THEN ~calls[k].ok /\ calls[k].adapter = NilAdapter
                 ELSE /\ calls[k].ok
                      /\ calls[k].adapter = calls[Latest(RegistrationsBefore(k))].adapter
              /\ calls[k].registeredAdapters =
                    (IF k = 1 THEN NoAdapters ELSE calls[k - 1].registeredAdapters)
    /\ \A e \in DOMAIN registeredAdapters : ToLower(e) = e
    /\ DOMAIN registeredAdapters =
          {ToLower(calls[k].entityName) :
              k \in {i \in DOMAIN calls : calls[i].fn = "RegisterAdapter"}}

\* Two registrations under names that differ in letter case, then a lookup
\* that returns the second adapter.
C30_Witness ==
    /\ Len(calls) = 3
    /\ calls[1].fn = "RegisterAdapter"
    /\ calls[1].entityName = "Transaction"
    /\ calls[2].fn = "RegisterAdapter"
    /\ calls[2].entityName = "transaction"
    /\ calls[2].adapter # calls[1].adapter
    /\ calls[3].fn = "GetAdapter"
    /\ calls[3].entityName = "Transaction"
    /\ calls[3].ok
    /\ calls[3].adapter = calls[2].adapter

=============================================================================
